---- MODULE Spec2Model ----
(***************************************************************************)
(* OpenRouterService (src/src/lib/openrouter.service.ts): the chat         *)
(* completion client.  One client instance, one sendChatMessage call at a  *)
(* time; the call is followed through its suspension points (the fetch,    *)
(* the read of the response body, the backoff delay).                      *)
(***************************************************************************)
EXTENDS Integers, Sequences, FiniteSets, TLC

(* ------------------------------ bounds -------------------------------- *)

\* largest maxRetries option a client is constructed with
MaxRetriesOption == 2
\* schema names a client generates at most
MaxSchemaCounter == 1
\* schema names a client generates at most when its setters are followed
MaxGeneratedNames == 2
\* branches of a composition (anyOf, oneOf) at most
MaxBranches == 2

(* ------------------------- program constants -------------------------- *)

DEFAULT_MAX_RETRIES == 2
DEFAULT_RETRY_DELAY_MS == 1000
DEFAULT_BACKOFF_MULTIPLIER == 2
\* the text of the default system prompt, as a sequence of characters
DEFAULT_SYSTEM_MESSAGE == <<"s">>
\* the default model name, as a sequence of characters
DEFAULT_MODEL_NAME == <<"d">>
RETRIABLE_STATUS_CODES == {408, 409, 425, 429, 500, 502, 503, 504, 524}

ErrorCodes ==
  {"CONFIGURATION_ERROR", "VALIDATION_ERROR", "NETWORK_ERROR", "API_ERROR"}

(* --------------------------- optional values -------------------------- *)

NoNum == [def |-> FALSE, v |-> 0]
SomeNum(n) == [def |-> TRUE, v |-> n]
NoStr == [def |-> FALSE, v |-> <<>>]
SomeStr(s) == [def |-> TRUE, v |-> s]

\* sampling parameters, in tenths; a parameter that is not a finite number
\* is NoNum
DEFAULT_MODEL_PARAMETERS ==
  [temperature |-> SomeNum(7), top_p |-> SomeNum(10),
   frequency_penalty |-> SomeNum(0), presence_penalty |-> SomeNum(0)]

\* { ...a, ...b } on parameter records
Spread(a, b) ==
  [k \in DOMAIN a \cup DOMAIN b |-> IF k \in DOMAIN b THEN b[k] ELSE a[k]]

\* status of an error that carries none
NoStatus == -1

(* ------------------------------- strings ------------------------------ *)

\* String.prototype.trim on a sequence of characters; " " is white space
RECURSIVE TrimLeft(_)
TrimLeft(s) ==
  IF s = <<>> THEN <<>>
  ELSE IF Head(s) = " " THEN TrimLeft(Tail(s)) ELSE s

RECURSIVE TrimRight(_)
TrimRight(s) ==
  IF s = <<>> THEN <<>>
  ELSE IF s[Len(s)] = " " THEN TrimRight(SubSeq(s, 1, Len(s) - 1)) ELSE s

Trim(s) == TrimRight(TrimLeft(s))

RECURSIVE Pow(_, _)
Pow(b, e) == IF e <= 0 THEN 1 ELSE b * Pow(b, e - 1)

Max(a, b) == IF a >= b THEN a ELSE b

(* -------------------------------- inputs ------------------------------ *)

\* the userMessage arguments of sendChatMessage
UserMessages == {<<>>, <<" ">>, <<"h">>, <<" ", "h", " ">>}

\* HTTP statuses a response carries
Statuses == {0, 200, 401, 404, 429, 501}

\* names of the raw errors a rejected fetch or body read throws
RawErrors == {"FetchError", "OtherError"}

\* constructor options
MaxRetriesOptions == {NoNum} \cup {SomeNum(n) : n \in -1..MaxRetriesOption}
RetryDelayOptions == {NoNum, SomeNum(100)}
BackoffOptions == {NoNum, SomeNum(0), SomeNum(3)}
ApiKeyOptions == {NoStr, SomeStr(<<>>), SomeStr(<<"k">>)}
EnvKeyOptions == {NoStr, SomeStr(<<"k">>)}

\* a response body, by the shape the client inspects
WellFormedBody ==
  [text     |-> "json",      \* "empty" | "notJson" | "json"
   top      |-> "object",    \* "object" | "other": the decoded JSON value
   hasId    |-> TRUE,        \* "id" in body
   choices  |-> "list",      \* "missing"|"null"|"number"|"string"|"empty"|"list"
   first    |-> "message",   \* choices[0]: "null"|"noMessage"|"message"
   content  |-> "text",      \* message.content
   parsed   |-> FALSE,       \* message.parsed is a non-null object
   decodes  |-> TRUE,        \* the fence-stripped content is valid JSON
   conforms |-> TRUE]        \* the structured value satisfies the schema

Bodies ==
  {WellFormedBody}
    \cup {[WellFormedBody EXCEPT !.text = t] : t \in {"empty", "notJson"}}
    \cup {[WellFormedBody EXCEPT !.top = "other"]}
    \cup {[WellFormedBody EXCEPT !.hasId = FALSE]}
    \cup {[WellFormedBody EXCEPT !.choices = c] :
            c \in {"missing", "null", "number", "string", "empty"}}
    \cup {[WellFormedBody EXCEPT !.first = f] : f \in {"null", "noMessage"}}
    \cup {[WellFormedBody EXCEPT !.content = c] :
            c \in {"blank", "missing", "parts", "noTextParts"}}
    \cup {[WellFormedBody EXCEPT !.content = "blankParts", !.decodes = FALSE,
                                 !.parsed = p] : p \in BOOLEAN}
    \cup {[WellFormedBody EXCEPT !.parsed = TRUE, !.decodes = d, !.conforms = c] :
            d \in BOOLEAN, c \in BOOLEAN}
    \cup {[WellFormedBody EXCEPT !.decodes = FALSE]}
    \cup {[WellFormedBody EXCEPT !.conforms = FALSE]}

\* the body recorded for a response whose body the client does not interpret
NoBody == [WellFormedBody EXCEPT !.text = "empty"]

(* --------------------------- response format -------------------------- *)

\* a schema name: its text, or the number N of structured_output_N
GivenName(text) == [text |-> text, auto |-> 0]
AutoName(n) == [text |-> <<>>, auto |-> n]

\* this.responseFormat; schema names the registered schema object
NoResponseFormat ==
  [def |-> FALSE, schema |-> "", name |-> GivenName(<<>>), strict |-> FALSE]

(* ------------------------------- errors ------------------------------- *)

\* Besides the fields of the error or result, an outcome records what the
\* structured-output step did: parsedFrom is where the structured value came
\* from ("message.parsed" or "content"), validated is the response format
\* whose schema it was validated against.

\* new OpenRouterServiceError(message, code, {status, cause}); the cause is
\* the name of the underlying error, "none" when the error has no cause
ServiceError(code, status, cause) ==
  [kind |-> "error", typed |-> TRUE, code |-> code, status |-> status,
   cause |-> IF cause = "undefined" THEN "none" ELSE cause,
   content |-> "none", parsed |-> FALSE, parsedFrom |-> "none",
   validated |-> NoResponseFormat]

\* an error that is not an OpenRouterServiceError
RawError(name) ==
  [kind |-> "error", typed |-> FALSE, code |-> name, status |-> NoStatus,
   cause |-> "none", content |-> "none", parsed |-> FALSE,
   parsedFrom |-> "none", validated |-> NoResponseFormat]

\* the OpenRouterChatResult returned by sendChatMessage: its content is
\* "nonEmpty" or "empty", parsed is set when a schema is registered
Result(content, hasParsed) ==
  [kind |-> "result", typed |-> TRUE, code |-> "OK", status |-> NoStatus,
   cause |-> "none", content |-> content, parsed |-> hasParsed,
   parsedFrom |-> "none", validated |-> NoResponseFormat]

NoOutcome ==
  [kind |-> "none", typed |-> TRUE, code |-> "", status |-> NoStatus,
   cause |-> "none", content |-> "none", parsed |-> FALSE,
   parsedFrom |-> "none", validated |-> NoResponseFormat]

(* ----------------------------- JSON values ---------------------------- *)

\* A value as JSON.parse returns it.  A number is an integer n, n + 1/2
\* (kind "frac") or an infinity (1e999 decodes to Infinity); an object is the
\* sequence of its entries in the order of Object.keys; JUndefined is the
\* value of an index or key that is not there.
JNull == [t |-> "null"]
JUndefined == [t |-> "undefined"]
JBool(b) == [t |-> "boolean", b |-> b]
JInt(n) == [t |-> "number", kind |-> "int", n |-> n]
JFrac(n) == [t |-> "number", kind |-> "frac", n |-> n]
JInfinity == [t |-> "number", kind |-> "inf", n |-> 0]
JString(s) == [t |-> "string", s |-> s]
JArray(items) == [t |-> "array", items |-> items]
JObject(entries) == [t |-> "object", entries |-> entries]
Entry(k, v) == [k |-> k, v |-> v]

\* key in value
KeyIn(key, value) ==
  \E i \in 1..Len(value.entries) : value.entries[i].k = key

\* value[key]
Get(value, key) ==
  IF KeyIn(key, value)
  THEN LET i == CHOOSE j \in 1..Len(value.entries) : value.entries[j].k = key
       IN value.entries[i].v
  ELSE JUndefined

\* data[index] of an array, index counted from 1
At(data, index) ==
  IF index <= Len(data.items) THEN data.items[index] ELSE JUndefined

\* Object.keys(value)
Keys(value) == [i \in 1..Len(value.entries) |-> value.entries[i].k]

(* ----------------------------- JSON schemas --------------------------- *)

\* A schema is a record with the keywords it has: type is [single |-> name]
\* or [union |-> names]; properties is the sequence of its entries; items is
\* [single |-> schema] or [tuple |-> schemas]; enum, required, anyOf, oneOf
\* and allOf are sequences; additionalProperties is [allowed |-> Boolean] or
\* [schema |-> schema].
EmptySchema == [k \in {} |-> JNull]

\* additionalProperties: false
NoAdditional == [allowed |-> FALSE]

Has(schema, keyword) == keyword \in DOMAIN schema

\* how validateAgainstSchema ended: it returned, or threw VALIDATION_ERROR
\* with a message of the given kind about the given pointer; detail is what
\* the message lists besides (keys, type names, a limit)
Valid == [threw |-> FALSE, message |-> "", pointer |-> <<>>, detail |-> <<>>]
Invalid(message, pointer, detail) ==
  [threw |-> TRUE, message |-> message, pointer |-> pointer,
   detail |-> detail]
\* validateAgainstSchema has not run
NotRun ==
  [threw |-> FALSE, message |-> "not run", pointer |-> <<>>, detail |-> <<>>]

\* `${pointer}/${property}`
PropertyPointer(pointer, property) == Append(pointer, [key |-> property])

\* variant: the elements are counted from 1
IndexPointer_FromOne(pointer, index) == Append(pointer, [index |-> index])

\* `${pointer}/${index}`, the index counted from 0; index here is the
\* position in the sequence, counted from 1
IndexPointer(pointer, index) == Append(pointer, [index |-> index - 1])

matchesSchemaType(typeName, value) ==
  CASE typeName = "string" -> value.t = "string"
    [] typeName = "number" -> value.t = "number" /\ value.kind # "inf"
    [] typeName = "integer" -> value.t = "number" /\ value.kind = "int"
    [] typeName = "boolean" -> value.t = "boolean"
    [] typeName = "object" -> value.t = "object"
    [] typeName = "array" -> value.t = "array"
    [] typeName = "null" -> value.t = "null"
    [] OTHER -> FALSE

\* normalizeSchemaTypes(schema.type)
normalizeSchemaTypes(schema) ==
  IF ~Has(schema, "type") THEN <<>>
  ELSE IF Has(schema.type, "union") THEN schema.type.union
  ELSE <<schema.type.single>>

\* expectedTypes.includes(typeName)
Includes(names, typeName) == \E i \in 1..Len(names) : names[i] = typeName

\* Object.is on two values that are not the same object
ObjectIs(left, right) ==
  /\ left.t = right.t
  /\ CASE left.t = "boolean" -> left.b = right.b
       [] left.t = "number" -> left.kind = right.kind /\ left.n = right.n
       [] left.t = "string" -> left.s = right.s
       [] left.t \in {"null", "undefined"} -> TRUE
       [] OTHER -> FALSE

\* typeof value
TypeOf(value) ==
  IF value.t \in {"null", "array", "object"} THEN "object" ELSE value.t

RECURSIVE deepEqual(_, _)
deepEqual(left, right) ==
  IF ObjectIs(left, right) THEN TRUE
  ELSE IF \/ TypeOf(left) # TypeOf(right)
          \/ TypeOf(left) # "object"
          \/ left.t = "null"
          \/ right.t = "null"
       THEN FALSE
  ELSE IF left.t = "array" /\ right.t = "array"
       THEN /\ Len(left.items) = Len(right.items)
            /\ \A i \in 1..Len(left.items) :
                 deepEqual(left.items[i], right.items[i])
  ELSE IF left.t = "array" \/ right.t = "array" THEN FALSE
  ELSE /\ Len(left.entries) = Len(right.entries)
       /\ \A i \in 1..Len(left.entries) :
            deepEqual(left.entries[i].v, Get(right, left.entries[i].k))

RECURSIVE validateAgainstSchema(_, _, _)
RECURSIVE validateObject(_, _, _)
RECURSIVE validateArray(_, _, _)
RECURSIVE isSchemaSatisfied(_, _, _)
RECURSIVE AllOfFrom(_, _, _, _)
RECURSIVE PropertiesFrom(_, _, _, _)
RECURSIVE TupleItemsFrom(_, _, _, _)
RECURSIVE ItemsFrom(_, _, _, _)

isSchemaSatisfied(schema, data, pointer) ==
  ~validateAgainstSchema(schema, data, pointer).threw

\* for (const candidate of schema.allOf), from candidate i on
AllOfFrom(schema, data, pointer, i) ==
  IF i > Len(schema.allOf) THEN Valid
  ELSE LET one == validateAgainstSchema(schema.allOf[i], data, pointer)
       IN IF one.threw THEN one ELSE AllOfFrom(schema, data, pointer, i + 1)

\* the checks of validateAgainstSchema on strings and numbers, after the
\* object and array branches
ScalarChecks(schema, data, pointer, expectedTypes) ==
  IF /\ Includes(expectedTypes, "string") /\ data.t = "string"
     /\ Has(schema, "minLength") /\ Len(data.s) < schema.minLength
  THEN Invalid("minLength", pointer, <<schema.minLength>>)
  ELSE IF /\ Includes(expectedTypes, "string") /\ data.t = "string"
          /\ Has(schema, "maxLength") /\ Len(data.s) > schema.maxLength
  THEN Invalid("maxLength", pointer, <<schema.maxLength>>)
  ELSE IF Includes(expectedTypes, "number")
            \/ Includes(expectedTypes, "integer")
  THEN IF data.t # "number" THEN Invalid("number", pointer, <<>>)
       ELSE IF Includes(expectedTypes, "integer") /\ data.kind # "int"
            THEN Invalid("integer", pointer, <<>>)
            ELSE Valid
  ELSE Valid

\* variant: the object and array checks do not wait for properties and items
TypedChecks_ByTypeAlone(schema, data, pointer) ==
  LET expectedTypes == normalizeSchemaTypes(schema)
      shouldTreatAsObject ==
        Includes(expectedTypes, "object") \/ Len(expectedTypes) = 0
      shouldTreatAsArray ==
        Includes(expectedTypes, "array") \/ Len(expectedTypes) = 0
  IN IF /\ Len(expectedTypes) > 0
        /\ ~\E i \in 1..Len(expectedTypes) :
              matchesSchemaType(expectedTypes[i], data)
     THEN Invalid("type", pointer, expectedTypes)
     ELSE IF shouldTreatAsObject /\ matchesSchemaType("object", data)
     THEN validateObject(schema, data, pointer)
     ELSE IF shouldTreatAsArray /\ data.t = "array"
     THEN validateArray(schema, data, pointer)
     ELSE ScalarChecks(schema, data, pointer, expectedTypes)

\* validateAgainstSchema from the type check on
TypedChecks(schema, data, pointer) ==
  LET expectedTypes == normalizeSchemaTypes(schema)
      shouldTreatAsObject ==
        /\ Has(schema, "properties")
        /\ (Includes(expectedTypes, "object") \/ Len(expectedTypes) = 0)
      shouldTreatAsArray ==
        /\ Has(schema, "items")
        /\ (Includes(expectedTypes, "array") \/ Len(expectedTypes) = 0)
  IN IF /\ Len(expectedTypes) > 0
        /\ ~\E i \in 1..Len(expectedTypes) :
              matchesSchemaType(expectedTypes[i], data)
     THEN Invalid("type", pointer, expectedTypes)
     ELSE IF shouldTreatAsObject /\ matchesSchemaType("object", data)
     THEN validateObject(schema, data, pointer)
     ELSE IF shouldTreatAsArray /\ data.t = "array"
     THEN validateArray(schema, data, pointer)
     ELSE ScalarChecks(schema, data, pointer, expectedTypes)

\* variant: a composition that is satisfied falls through to the keywords
\* beside it
validateAgainstSchema_SiblingsChecked(schema, data, pointer) ==
  IF /\ Has(schema, "anyOf")
     /\ ~\E i \in 1..Len(schema.anyOf) :
           isSchemaSatisfied(schema.anyOf[i], data, pointer)
  THEN Invalid("anyOf", pointer, <<>>)
  ELSE IF /\ Has(schema, "oneOf")
          /\ Cardinality({i \in 1..Len(schema.oneOf) :
                            isSchemaSatisfied(schema.oneOf[i], data,
                                              pointer)}) # 1
  THEN Invalid("oneOf", pointer, <<>>)
  ELSE LET all == IF Has(schema, "allOf")
                  THEN AllOfFrom(schema, data, pointer, 1)
                  ELSE Valid
       IN IF all.threw THEN all
          ELSE IF /\ Has(schema, "enum")
                  /\ ~\E i \in 1..Len(schema.enum) :
                        deepEqual(schema.enum[i], data)
          THEN Invalid("enum", pointer, <<>>)
          ELSE TypedChecks(schema, data, pointer)

validateAgainstSchema(schema, data, pointer) ==
  IF Has(schema, "anyOf")
  THEN IF \E i \in 1..Len(schema.anyOf) :
            isSchemaSatisfied(schema.anyOf[i], data, pointer)
       THEN Valid
       ELSE Invalid("anyOf", pointer, <<>>)
  ELSE IF Has(schema, "oneOf")
  THEN LET matches == {i \in 1..Len(schema.oneOf) :
                         isSchemaSatisfied(schema.oneOf[i], data, pointer)}
       IN IF Cardinality(matches) # 1
          THEN Invalid("oneOf", pointer, <<>>)
          ELSE Valid
  ELSE LET all == IF Has(schema, "allOf")
                  THEN AllOfFrom(schema, data, pointer, 1)
                  ELSE Valid
       IN IF all.threw THEN all
          ELSE IF /\ Has(schema, "enum")
                  /\ ~\E i \in 1..Len(schema.enum) :
                        deepEqual(schema.enum[i], data)
          THEN Invalid("enum", pointer, <<>>)
          ELSE TypedChecks(schema, data, pointer)

\* the properties of the schema that the value has, from entry i on
PropertiesFrom(schema, value, pointer, i) ==
  IF i > Len(schema.properties) THEN Valid
  ELSE LET property == schema.properties[i].k
           one == IF KeyIn(property, value)
                  THEN validateAgainstSchema(
                         schema.properties[i].v, Get(value, property),
                         PropertyPointer(pointer, property))
                  ELSE Valid
       IN IF one.threw THEN one
          ELSE PropertiesFrom(schema, value, pointer, i + 1)

validateObject(schema, data, pointer) ==
  IF ~matchesSchemaType("object", data)
  THEN Invalid("object", pointer, <<>>)
  ELSE LET requiredKeys ==
             IF Has(schema, "required") THEN schema.required ELSE <<>>
           missing ==
             {i \in 1..Len(requiredKeys) : ~KeyIn(requiredKeys[i], data)}
           checked ==
             IF Has(schema, "properties")
             THEN PropertiesFrom(schema, data, pointer, 1)
             ELSE Valid
           allowed ==
             {schema.properties[i].k : i \in 1..Len(schema.properties)}
           IsUnexpected(key) == key \notin allowed
       IN IF missing # {}
          THEN Invalid("required", pointer,
                       <<requiredKeys[CHOOSE i \in missing :
                                        \A j \in missing : i <= j]>>)
          ELSE IF checked.threw THEN checked
          ELSE IF /\ Has(schema, "additionalProperties")
                  /\ schema.additionalProperties = NoAdditional
                  /\ Has(schema, "properties")
                  /\ SelectSeq(Keys(data), IsUnexpected) # <<>>
          THEN Invalid("unexpected", pointer,
                       SelectSeq(Keys(data), IsUnexpected))
          ELSE Valid

\* schema.items.forEach of a tuple of item schemas, from index i on
TupleItemsFrom(schema, data, pointer, i) ==
  IF i > Len(schema.items.tuple) THEN Valid
  ELSE LET one == validateAgainstSchema(schema.items.tuple[i], At(data, i),
                                        IndexPointer(pointer, i))
       IN IF one.threw THEN one
          ELSE TupleItemsFrom(schema, data, pointer, i + 1)

\* data.forEach with the one item schema, from index i on
ItemsFrom(schema, data, pointer, i) ==
  IF i > Len(data.items) THEN Valid
  ELSE LET one == validateAgainstSchema(schema.items.single, data.items[i],
                                        IndexPointer(pointer, i))
       IN IF one.threw THEN one
          ELSE ItemsFrom(schema, data, pointer, i + 1)

validateArray(schema, data, pointer) ==
  IF data.t # "array" THEN Invalid("array", pointer, <<>>)
  ELSE IF Has(schema, "minItems") /\ Len(data.items) < schema.minItems
  THEN Invalid("minItems", pointer, <<schema.minItems>>)
  ELSE IF Has(schema, "maxItems") /\ Len(data.items) > schema.maxItems
  THEN Invalid("maxItems", pointer, <<schema.maxItems>>)
  ELSE IF Has(schema, "items") /\ Has(schema.items, "tuple")
  THEN TupleItemsFrom(schema, data, pointer, 1)
  ELSE IF Has(schema, "items")
  THEN ItemsFrom(schema, data, pointer, 1)
  ELSE Valid

(* ---------------------------- code fences ----------------------------- *)

\* Texts are sequences of characters; " " stands for every white space
\* character, a line break included, and "'" for the grave accent of a code
\* fence, which a TLA+ string cannot hold.

Fence == <<"'", "'", "'">>

StartsWith(s, prefix) ==
  Len(s) >= Len(prefix) /\ SubSeq(s, 1, Len(prefix)) = prefix

EndsWith(s, suffix) ==
  Len(s) >= Len(suffix)
    /\ SubSeq(s, Len(s) - Len(suffix) + 1, Len(s)) = suffix

\* the text from its character at position from on
DropTo(s, from) == SubSeq(s, from, Len(s))

\* String.prototype.toLowerCase on the letters of the language tag
LowerChar(c) ==
  CASE c = "J" -> "j" [] c = "S" -> "s" [] c = "O" -> "o" [] c = "N" -> "n"
    [] OTHER -> c
Lower(s) == [i \in 1..Len(s) |-> LowerChar(s[i])]

NoMatch == [matched |-> FALSE, group |-> <<>>]
Match(group) == [matched |-> TRUE, group |-> group]

\* /^```(?:json)?\s*([\s\S]*?)\s*```$/i.exec(trimmed): the opening fence, the
\* tag if it is there, white space, the lazy group, white space and the
\* closing fence at the end of the text
FenceWithTag(trimmed) ==
  IF Len(trimmed) >= 2 * Len(Fence) /\ StartsWith(trimmed, Fence)
       /\ EndsWith(trimmed, Fence)
  THEN LET inside == SubSeq(trimmed, Len(Fence) + 1, Len(trimmed) - Len(Fence))
           afterTag == IF StartsWith(Lower(inside), <<"j", "s", "o", "n">>)
                       THEN DropTo(inside, 5)
                       ELSE inside
       IN Match(TrimRight(TrimLeft(afterTag)))
  ELSE NoMatch

\* /^```([\s\S]*?)```$/i.exec(trimmed)
FenceAlone(trimmed) ==
  IF Len(trimmed) >= 2 * Len(Fence) /\ StartsWith(trimmed, Fence)
       /\ EndsWith(trimmed, Fence)
  THEN Match(SubSeq(trimmed, Len(Fence) + 1, Len(trimmed) - Len(Fence)))
  ELSE NoMatch

\* variant: the text is only trimmed
stripCodeFences_TrimOnly(payload) == Trim(payload)

stripCodeFences(payload) ==
  LET trimmed == Trim(payload)
      fenceMatch == IF FenceWithTag(trimmed).matched
                    THEN FenceWithTag(trimmed)
                    ELSE FenceAlone(trimmed)
  IN IF fenceMatch.matched /\ fenceMatch.group # <<>>
     THEN Trim(fenceMatch.group)
     ELSE trimmed

\* the texts of the JSON values the decoder knows, each with its value
JsonTexts ==
  {[text |-> <<"1">>, value |-> JInt(1)],
   [text |-> <<"n", "u", "l", "l">>, value |-> JNull],
   [text |-> <<"{", "}">>, value |-> JObject(<<>>)],
   [text |-> <<"[", "1", "]">>, value |-> JArray(<<JInt(1)>>)],
   [text |-> <<"[", " ", "1", "]">>, value |-> JArray(<<JInt(1)>>)],
   [text |-> <<"\"", "a", "\"">>, value |-> JString(<<"a">>)],
   [text |-> <<"\"", " ", "\"">>, value |-> JString(<<" ">>)],
   [text |-> <<"\"", "'", "'", "'", "\"">>, value |-> JString(Fence)],
   [text |-> <<"\"", "'", "'", "'", "j", "s", "o", "n", " ", "1", "'", "'",
               "'", "\"">>,
    value |-> JString(Fence \o <<"j", "s", "o", "n", " ", "1">> \o Fence)]}

\* JSON.parse(text): white space around the value is skipped; a text that is
\* not the text of a value throws a SyntaxError
JsonParse(text) ==
  IF \E entry \in JsonTexts : entry.text = Trim(text)
  THEN [threw |-> FALSE,
        value |-> (CHOOSE entry \in JsonTexts : entry.text = Trim(text)).value]
  ELSE [threw |-> TRUE, value |-> JUndefined]

\* deserializeStructuredContent(content): the value, or the throw of
\* VALIDATION_ERROR
deserializeStructuredContent(content) == JsonParse(stripCodeFences(content))

\* deserializeStructuredContent has not run
NotDeserialized == [threw |-> FALSE, value |-> JUndefined]

(* ------------------------- generation service ------------------------- *)

\* DEFAULT_OPTIONS.maxProposals
DefaultMaxProposals == 10

\* a flashcard candidate of the parsed response, by what
\* normalizeFlashcardCandidate sees: "valid" has a front and a back with
\* text, "blank" has a front or a back of white space, "missing" lacks one,
\* "null" is no object
Candidates == {"valid", "blank", "missing", "null"}

\* response.parsed is undefined
NoParsed == [given |-> FALSE, isArray |-> FALSE, flashcards |-> <<>>]

\* response.parsed is an object whose flashcards is not an array
MalformedParsed == [given |-> TRUE, isArray |-> FALSE, flashcards |-> <<>>]

\* response.parsed is an object with a list of flashcards
Parsed(flashcards) ==
  [given |-> TRUE, isArray |-> TRUE, flashcards |-> flashcards]

\* the chat client rejects with an error
ChatRejects(name) ==
  [rejects |-> TRUE, error |-> name, parsed |-> NoParsed, usage |-> FALSE]

\* the chat client resolves with a result; usage tells whether the result
\* has token counts
ChatResolves(parsed, usage) ==
  [rejects |-> FALSE, error |-> "none", parsed |-> parsed, usage |-> usage]

\* normalizeFlashcardCandidate(candidate) is not null
IsProposal(candidate) == candidate = "valid"

\* the candidates that are kept, in their order
RECURSIVE KeptFrom(_, _)
KeptFrom(flashcards, i) ==
  IF i > Len(flashcards) THEN <<>>
  ELSE (IF IsProposal(flashcards[i]) THEN <<flashcards[i]>> ELSE <<>>)
         \o KeptFrom(flashcards, i + 1)

\* normalizeFlashcardResponse(parsed): the proposals, or the throw
normalizeFlashcardResponse(parsed) ==
  IF ~parsed.given \/ ~parsed.isArray
  THEN [threw |-> TRUE, proposals |-> <<>>]
  ELSE IF KeptFrom(parsed.flashcards, 1) = <<>>
  THEN [threw |-> TRUE, proposals |-> <<>>]
  ELSE [threw |-> FALSE, proposals |-> KeptFrom(parsed.flashcards, 1)]

\* proposals.slice(0, maxProposals)
Slice(proposals, maxProposals) ==
  SubSeq(proposals, 1, IF Len(proposals) < maxProposals
                       THEN Len(proposals) ELSE maxProposals)

\* variant: a failure of the AI step is not logged
AiStep_NotLogged(chat, maxProposals) ==
  IF chat.rejects \/ normalizeFlashcardResponse(chat.parsed).threw
  THEN [failed |-> TRUE, logs |-> <<>>, proposals |-> <<>>]
  ELSE [failed |-> FALSE, logs |-> <<>>,
        proposals |->
          Slice(normalizeFlashcardResponse(chat.parsed).proposals,
                maxProposals)]

\* the try block of generateFlashcardProposals and what its catch block
\* logs: the proposals returned, or the failure and the error code logged
AiStep(chat, maxProposals) ==
  IF chat.rejects \/ normalizeFlashcardResponse(chat.parsed).threw
  THEN [failed |-> TRUE, logs |-> <<"AI_REQUEST_FAILED">>,
        proposals |-> <<>>]
  ELSE [failed |-> FALSE, logs |-> <<>>,
        proposals |->
          Slice(normalizeFlashcardResponse(chat.parsed).proposals,
                maxProposals)]

\* an insert call on a table of the database: the error_code of the row (""
\* on the generations table) and whether the database accepted it
Insert(table, code, accepted) ==
  [table |-> table, error_code |-> code, accepted |-> accepted]

\* createGeneration has not ended
NoGenerationOutcome == [kind |-> "none", code |-> "", count |-> 0]

\* createGeneration rejects with a GenerationServiceError
GenerationServiceError(code) == [kind |-> "error", code |-> code, count |-> 0]

\* createGeneration resolves with the proposals
GenerationResponse(proposals) ==
  [kind |-> "result", code |-> "", count |-> Len(proposals)]

(* ------------------------------- state -------------------------------- *)

VARIABLES
  client,      \* the fields of the OpenRouterService instance
  pc,          \* position of the sendChatMessage call:
               \*   "idle" | "fetch" | "text" | "delay" | "done"
  arg,         \* userMessage argument of the call in progress
  payload,     \* request payload built by the call in progress
  attempt,     \* executeRequest: let attempt
  lastError,   \* executeRequest: let lastError (name of the error)
  timerArmed,  \* the attempts whose abort timer is pending
  response,    \* status of the response whose body is being read
  outcome,     \* what the call returned or threw
  requests,    \* HTTP requests issued by the call
  log,         \* how each attempt of the call ended
  delays,      \* backoff delays scheduled by the call, in order
  setterResult,\* "none", or how the last setter call ended
  generated,   \* the names generateSchemaName returned, in order
  systemCleared, \* clearSystemMessage was the last successful change of
               \* the system message
  other,       \* the fields of a second OpenRouterService instance
  vSchema,     \* validateAgainstSchema: the schema under validation
  vData,       \* validateAgainstSchema: the value under validation
  vResult,     \* validateAgainstSchema: NotRun, or how it ended
  dText,       \* the text of a JSON value
  dContent,    \* deserializeStructuredContent: the assistant content
  dResult,     \* deserializeStructuredContent: NotDeserialized, or how it
               \* ended
  gPc,         \* createGeneration: "idle", "persist", "usage", "done"
  gChat,       \* how sendChatMessage settled for the generation service
  gProposals,  \* the proposals of the AI step
  gInserts,    \* the insert calls made on the database, in their order
  gOutcome,    \* how createGeneration ended
  gMaxProposals  \* options.maxProposals

\* the history of the setter calls
setterVars == <<generated, systemCleared, other>>

\* the call of the generation service
generationVars ==
  <<gPc, gChat, gProposals, gInserts, gOutcome, gMaxProposals>>

\* the runs of the validator, of the decoder and of the generation service
validatorVars ==
  <<vSchema, vData, vResult, dText, dContent, dResult, generationVars>>

vars ==
  <<client, pc, arg, payload, attempt, lastError, timerArmed, response,
    outcome, requests, log, delays, setterResult, generated, systemCleared,
    other, vSchema, vData, vResult, dText, dContent, dResult, gPc, gChat,
    gProposals, gInserts, gOutcome, gMaxProposals>>

(* ----------------------------- constructor ---------------------------- *)

\* a ?? b on optional values
Coalesce(a, b) == IF a.def THEN a ELSE b

Constructor(options) ==
  [maxRetries        |-> IF options.maxRetries.def
                         THEN Max(0, options.maxRetries.v)
                         ELSE DEFAULT_MAX_RETRIES,
   retryDelayMs      |-> IF options.retryDelayMs.def
                         THEN options.retryDelayMs.v
                         ELSE DEFAULT_RETRY_DELAY_MS,
   backoffMultiplier |-> IF options.backoffMultiplier.def
                            /\ options.backoffMultiplier.v > 0
                         THEN options.backoffMultiplier.v
                         ELSE DEFAULT_BACKOFF_MULTIPLIER,
   apiKey            |-> Coalesce(options.apiKey,
                                  Coalesce(options.processEnvKey,
                                           options.metaEnvKey)),
   modelName         |-> IF options.model.def /\ Trim(options.model.v) # <<>>
                         THEN Trim(options.model.v)
                         ELSE DEFAULT_MODEL_NAME,
   modelParameters   |-> Spread(DEFAULT_MODEL_PARAMETERS,
                                options.modelParameters),
   currentSystemMessage |-> DEFAULT_SYSTEM_MESSAGE,
   currentUserMessage   |-> <<>>,
   responseFormat       |-> NoResponseFormat,
   schemaCounter        |-> 0]

\* options.modelParameters: no parameters
NoParameters == [k \in {} |-> NoNum]

Options ==
  [maxRetries : MaxRetriesOptions, retryDelayMs : RetryDelayOptions,
   backoffMultiplier : BackoffOptions, apiKey : ApiKeyOptions,
   processEnvKey : EnvKeyOptions, metaEnvKey : EnvKeyOptions,
   model : {NoStr}, modelParameters : {NoParameters}]

\* the options of the clients whose setters are followed
DefaultOptions ==
  [maxRetries |-> SomeNum(1), retryDelayMs |-> NoNum,
   backoffMultiplier |-> NoNum, apiKey |-> SomeStr(<<"k">>),
   processEnvKey |-> NoStr, metaEnvKey |-> NoStr,
   model |-> SomeStr(<<" ", "m">>),
   modelParameters |-> [temperature |-> SomeNum(2)]]

NoPayload ==
  [model |-> <<>>, messages |-> <<>>, parameters |-> NoParameters,
   response_format |-> NoResponseFormat]

\* the state of the call and of the setter history at the start: no call in
\* progress, no setter called
InitRest ==
  /\ pc = "idle"
  /\ arg = <<>>
  /\ payload = NoPayload
  /\ attempt = 0
  /\ lastError = "undefined"
  /\ timerArmed = {}
  /\ response = NoStatus
  /\ outcome = NoOutcome
  /\ requests = 0
  /\ log = <<>>
  /\ delays = <<>>
  /\ setterResult = "none"
  /\ generated = <<>>
  /\ systemCleared = FALSE
  /\ other = Constructor(DefaultOptions)

\* the generation service is not called
NoGeneration ==
  /\ gPc = "idle"
  /\ gChat = ChatRejects("Error")
  /\ gProposals = <<>>
  /\ gInserts = <<>>
  /\ gOutcome = NoGenerationOutcome
  /\ gMaxProposals = DefaultMaxProposals

\* no validation is run
NoValidation ==
  /\ vSchema = EmptySchema
  /\ vData = JUndefined
  /\ vResult = NotRun
  /\ dText = <<>>
  /\ dContent = <<>>
  /\ dResult = NotDeserialized
  /\ NoGeneration

Init ==
  /\ \E options \in Options : client = Constructor(options)
  /\ InitRest
  /\ NoValidation

(* ------------------------------ helpers ------------------------------- *)

\* response.ok of the Fetch API: the status is in the range 200-299
ResponseOk(status) == status \in 200..299

\* variant: every client error status is retried
shouldRetry_AnyErrorStatus(status) == status = 0 \/ status >= 400

shouldRetry(status) ==
  status = 0 \/ status \in RETRIABLE_STATUS_CODES \/ status >= 500

\* variant: the exponent is the attempt number
delayForAttempt_ExponentAttempt(c, att) ==
  c.retryDelayMs * Pow(c.backoffMultiplier, att)

\* the value delayForAttempt passes to setTimeout
delayForAttempt(c, att) ==
  c.retryDelayMs * Pow(c.backoffMultiplier, att - 1)

\* variant: the key is not checked
assertApiKey_NoCheck(c) == TRUE

\* TRUE when assertApiKey returns, FALSE when it throws
assertApiKey(c) == c.apiKey.def /\ c.apiKey.v # <<>>

isAbortError(name) == name = "AbortError"

\* variant: every error counts as a network failure
isFetchError_AnyError(name) == TRUE

isFetchError(name) == name = "FetchError"

ErrName(e) == IF e.typed THEN "OpenRouterServiceError" ELSE e.code

\* variant: one attempt too many
AttemptsRemain_OneMore(att, c) == att <= c.maxRetries + 1

\* variant: one attempt too few
AttemptsRemain_OneLess(att, c) == att < c.maxRetries

\* attempt <= this.maxRetries: the test the loop and its three retry
\* decisions make (attempt > this.maxRetries is its negation)
AttemptsRemain(att, c) == att <= c.maxRetries

\* while (attempt <= this.maxRetries)
LoopCondition(att, c) == AttemptsRemain(att, c)

\* variant: a retriable status is retried without looking at the attempt
RetryOnStatus_AnyAttempt(status, att, c) == shouldRetry(status)

\* this.shouldRetry(response.status) && attempt <= this.maxRetries
RetryOnStatus(status, att, c) == shouldRetry(status) /\ AttemptsRemain(att, c)

\* variant: 401 is not special-cased
StatusError_AlwaysApi(status) == ServiceError("API_ERROR", status, "none")

\* the error thrown for a non-success status that is not retried
StatusError(status) ==
  ServiceError(IF status = 401 THEN "CONFIGURATION_ERROR" ELSE "API_ERROR",
               status, "none")

\* variant: the SyntaxError of JSON.parse is thrown as it is
ParseError_Unwrapped == RawError("SyntaxError")

\* the error thrown when the body of a success response is not JSON
ParseError == ServiceError("API_ERROR", NoStatus, "SyntaxError")

\* parsedBody: {} for an empty text, else the decoded value
ParsedBody(body) ==
  IF body.text = "empty"
  THEN [body EXCEPT !.top = "object", !.hasId = FALSE, !.choices = "missing"]
  ELSE body

\* TRUE when normalizeResponse returns the body, FALSE when it throws
normalizeResponse(body) ==
  body.top = "object" /\ body.hasId /\ body.choices # "missing"

(* what one pass through the loop body decides *)
Retry == [do |-> "retry", err |-> NoOutcome, body |-> NoBody]
Break == [do |-> "break", err |-> NoOutcome, body |-> NoBody]
Throw(e) == [do |-> "throw", err |-> e, body |-> NoBody]
Return(b) == [do |-> "return", err |-> NoOutcome, body |-> b]

\* the try block once the response text is read
TryBlock(status, body, att, c) ==
  IF body.text = "notJson" /\ ResponseOk(status) THEN Throw(ParseError)
  ELSE IF ~ResponseOk(status)
       THEN IF RetryOnStatus(status, att, c)
            THEN Retry
            ELSE Throw(StatusError(status))
       ELSE IF normalizeResponse(ParsedBody(body))
            THEN Return(ParsedBody(body))
            ELSE Throw(ServiceError("API_ERROR", NoStatus, "none"))

\* variant: the catch block gives up one attempt early
CatchBlock_EarlyBreak(error, timedOut, att, c) ==
  IF timedOut
  THEN IF att >= c.maxRetries THEN Break ELSE Retry
  ELSE IF error.typed THEN Throw(error)
  ELSE IF isAbortError(error.code) \/ isFetchError(error.code)
       THEN IF att >= c.maxRetries THEN Break ELSE Retry
       ELSE Throw(ServiceError("NETWORK_ERROR", NoStatus, error.code))

\* the catch block
CatchBlock(error, timedOut, att, c) ==
  IF timedOut
  THEN IF ~AttemptsRemain(att, c) THEN Break ELSE Retry
  ELSE IF error.typed THEN Throw(error)
  ELSE IF isAbortError(error.code) \/ isFetchError(error.code)
       THEN IF ~AttemptsRemain(att, c) THEN Break ELSE Retry
       ELSE Throw(ServiceError("NETWORK_ERROR", NoStatus, error.code))

\* extractAssistantContent: the content returned, "throw" when it throws
extractAssistantContent(content) ==
  CASE content = "text" -> "nonEmpty"
    [] content = "parts" -> "nonEmpty"
    [] content = "blankParts" -> "empty"
    [] OTHER -> "throw"

\* variant: the decoded content is preferred to message.parsed
parseStructuredPayload_ContentFirst(body) ==
  IF body.decodes \/ ~body.parsed THEN "content" ELSE "message.parsed"

\* where parseStructuredPayload(choice.message) ?? deserializeStructuredContent
\* (content) takes the structured value from
parseStructuredPayload(body) ==
  IF body.parsed THEN "message.parsed" ELSE "content"

\* sendChatMessage from the structured-output step on
StructuredTail(body, content, c) ==
  IF ~c.responseFormat.def THEN Result(content, FALSE)
  ELSE LET from == parseStructuredPayload(body) IN
       IF from = "content" /\ ~body.decodes
       THEN ServiceError("VALIDATION_ERROR", NoStatus, "SyntaxError")
       ELSE IF ~body.conforms
            THEN [ServiceError("VALIDATION_ERROR", NoStatus, "none")
                    EXCEPT !.parsedFrom = from,
                           !.validated = c.responseFormat]
            ELSE [Result(content, TRUE)
                    EXCEPT !.parsedFrom = from,
                           !.validated = c.responseFormat]

\* sendChatMessage after executeRequest has returned the response
SendTail(body, c) ==
  CASE body.choices = "null" -> RawError("TypeError")
    [] body.choices \in {"number", "empty"} ->
         ServiceError("API_ERROR", NoStatus, "none")
    [] body.choices = "string" -> RawError("TypeError")
    [] body.choices = "list" /\ body.first = "null" ->
         ServiceError("API_ERROR", NoStatus, "none")
    [] body.choices = "list" /\ body.first = "noMessage" ->
         RawError("TypeError")
    [] OTHER ->
         IF extractAssistantContent(body.content) = "throw"
         THEN ServiceError("API_ERROR", NoStatus, "none")
         ELSE StructuredTail(body, extractAssistantContent(body.content), c)

\* the sampling parameters that are finite numbers
buildModelParameters(c) ==
  [k \in {j \in DOMAIN c.modelParameters : c.modelParameters[j].def} |->
     c.modelParameters[k]]

\* variant: the system message is always sent
buildRequestPayload_AlwaysSystem(c, userMessage) ==
  [model |-> c.modelName,
   messages |->
     <<[role |-> "system", content |-> c.currentSystemMessage],
       [role |-> "user", content |-> userMessage]>>,
   parameters |-> buildModelParameters(c),
   response_format |-> c.responseFormat]

\* variant: the response_format block is never attached
buildRequestPayload_NoFormat(c, userMessage) ==
  [model |-> c.modelName,
   messages |->
     (IF c.currentSystemMessage # <<>>
      THEN <<[role |-> "system", content |-> c.currentSystemMessage]>>
      ELSE <<>>) \o <<[role |-> "user", content |-> userMessage]>>,
   parameters |-> buildModelParameters(c),
   response_format |-> NoResponseFormat]

buildRequestPayload(c, userMessage) ==
  [model |-> c.modelName,
   messages |->
     (IF c.currentSystemMessage # <<>>
      THEN <<[role |-> "system", content |-> c.currentSystemMessage]>>
      ELSE <<>>) \o <<[role |-> "user", content |-> userMessage]>>,
   parameters |-> buildModelParameters(c),
   response_format |-> c.responseFormat]

(* how an attempt ended, for the record *)
StatusEntry(status, body) ==
  [kind |-> "status", status |-> status, error |-> "none",
   body |-> IF ResponseOk(status) THEN body ELSE NoBody]
TimeoutEntry ==
  [kind |-> "timeout", status |-> NoStatus, error |-> "AbortError",
   body |-> NoBody]
ErrorEntry(name) ==
  [kind |-> "error", status |-> NoStatus, error |-> name, body |-> NoBody]

(* ------------------------------ actions ------------------------------- *)

\* variant: the timer is left pending
clearTimeout_Kept(timers, k) == timers

\* clearTimeout(timeout) for the timer of attempt k
clearTimeout(timers, k) == timers \ {k}

\* the loop of executeRequest from its head, with attempt = att
LoopHead(att, last) ==
  IF LoopCondition(att, client)
  THEN /\ attempt' = att + 1
       /\ requests' = requests + 1
       /\ timerArmed' = timerArmed \cup {att + 1}
       /\ pc' = "fetch"
       /\ outcome' = NoOutcome
  ELSE /\ attempt' = att
       /\ requests' = requests
       /\ timerArmed' = timerArmed
       /\ pc' = "done"
       /\ outcome' = ServiceError("NETWORK_ERROR", NoStatus, last)

\* variant: the message is stored only once the API key has been found
SendChatMessage_KeyFirst(userMessage) ==
  /\ pc = "idle"
  /\ arg' = userMessage
  /\ LET resolvedUserMessage ==
           IF Trim(userMessage) # <<>>
           THEN Trim(userMessage)
           ELSE client.currentUserMessage
     IN IF resolvedUserMessage = <<>>
        THEN /\ outcome' = ServiceError("VALIDATION_ERROR", NoStatus, "none")
             /\ pc' = "done"
             /\ UNCHANGED <<client, payload, attempt, requests, timerArmed>>
        ELSE /\ payload' = buildRequestPayload(client, resolvedUserMessage)
             /\ IF ~assertApiKey(client)
                THEN /\ outcome' =
                          ServiceError("CONFIGURATION_ERROR", NoStatus, "none")
                     /\ pc' = "done"
                     /\ UNCHANGED <<client, attempt, requests, timerArmed>>
                ELSE /\ client' =
                          [client EXCEPT
                             !.currentUserMessage = resolvedUserMessage]
                     /\ LoopHead(0, "undefined")
  /\ setterResult' = "none"
  /\ UNCHANGED <<lastError, response, log, delays>>
  /\ UNCHANGED <<setterVars, validatorVars>>

SendChatMessage(userMessage) ==
  /\ pc = "idle"
  /\ arg' = userMessage
  /\ LET resolvedUserMessage ==
           IF Trim(userMessage) # <<>>
           THEN Trim(userMessage)
           ELSE client.currentUserMessage
     IN IF resolvedUserMessage = <<>>
        THEN /\ outcome' = ServiceError("VALIDATION_ERROR", NoStatus, "none")
             /\ pc' = "done"
             /\ UNCHANGED <<client, payload, attempt, requests, timerArmed>>
        ELSE /\ client' =
                  [client EXCEPT !.currentUserMessage = resolvedUserMessage]
             /\ payload' = buildRequestPayload(client, resolvedUserMessage)
             /\ IF ~assertApiKey(client)
                THEN /\ outcome' =
                          ServiceError("CONFIGURATION_ERROR", NoStatus, "none")
                     /\ pc' = "done"
                     /\ UNCHANGED <<attempt, requests, timerArmed>>
                ELSE LoopHead(0, "undefined")
  /\ setterResult' = "none"
  /\ UNCHANGED <<lastError, response, log, delays>>
  /\ UNCHANGED <<setterVars, validatorVars>>

\* the fetch promise resolves with a response: clearTimeout, then text()
FetchResolves(status) ==
  /\ pc = "fetch"
  /\ pc' = "text"
  /\ timerArmed' = clearTimeout(timerArmed, attempt)
  /\ response' = status
  /\ UNCHANGED <<client, arg, payload, attempt, lastError, outcome, requests,
                 log, delays, setterResult>>
  /\ UNCHANGED <<setterVars, validatorVars>>

\* the rest of one pass through the loop body, given what the try block or
\* the catch block decided; caught names the error the catch block received
Settle(decision, caught, entry) ==
  /\ log' = Append(log, entry)
  /\ timerArmed' = clearTimeout(timerArmed, attempt)
  /\ response' = NoStatus
  /\ lastError' = IF caught = "none" THEN lastError ELSE caught
  /\ CASE decision.do = "retry" ->
            /\ pc' = "delay"
            /\ delays' = Append(delays, delayForAttempt(client, attempt))
            /\ UNCHANGED outcome
       [] decision.do = "break" ->
            /\ pc' = "done"
            /\ outcome' = ServiceError("NETWORK_ERROR", NoStatus, caught)
            /\ UNCHANGED delays
       [] decision.do = "throw" ->
            /\ pc' = "done"
            /\ outcome' = decision.err
            /\ UNCHANGED delays
       [] decision.do = "return" ->
            /\ pc' = "done"
            /\ outcome' = SendTail(decision.body, client)
            /\ UNCHANGED delays
  /\ UNCHANGED <<client, arg, payload, attempt, requests, setterResult>>
  /\ UNCHANGED <<setterVars, validatorVars>>

\* response.text() resolves
TextResolves(body) ==
  /\ pc = "text"
  /\ LET tried == TryBlock(response, body, attempt, client)
     IN IF tried.do = "throw"
        THEN Settle(CatchBlock(tried.err, FALSE, attempt, client),
                    ErrName(tried.err), StatusEntry(response, body))
        ELSE Settle(tried, "none", StatusEntry(response, body))

\* response.text() rejects
TextRejects(name) ==
  /\ pc = "text"
  /\ Settle(CatchBlock(RawError(name), FALSE, attempt, client), name,
            ErrorEntry(name))

\* fetch rejects for a reason other than the abort of the timer
FetchRejects(name) ==
  /\ pc = "fetch"
  /\ Settle(CatchBlock(RawError(name), FALSE, attempt, client), name,
            ErrorEntry(name))

\* the timer fires: timedOut = true, the request is aborted and fetch
\* rejects with an AbortError
TimerFires ==
  /\ pc = "fetch"
  /\ attempt \in timerArmed
  /\ Settle(CatchBlock(RawError("AbortError"), TRUE, attempt, client),
            "AbortError", TimeoutEntry)

\* the backoff delay elapses: continue
DelayElapses ==
  /\ pc = "delay"
  /\ LoopHead(attempt, lastError)
  /\ UNCHANGED <<client, arg, payload, lastError, response, log, delays,
                 setterResult>>
  /\ UNCHANGED <<setterVars, validatorVars>>

\* the caller has the outcome; the client is ready for the next call
Complete ==
  /\ pc = "done"
  /\ pc' = "idle"
  /\ arg' = <<>>
  /\ payload' = NoPayload
  /\ attempt' = 0
  /\ lastError' = "undefined"
  /\ outcome' = NoOutcome
  /\ requests' = 0
  /\ log' = <<>>
  /\ delays' = <<>>
  /\ UNCHANGED <<client, timerArmed, response, setterResult>>
  /\ UNCHANGED <<setterVars, validatorVars>>

(* ------------------------------- setters ------------------------------ *)

\* A setter is a function of the fields of the client and of its arguments:
\* the fields after the call and how the call ended ("ok", or the code of the
\* OpenRouterServiceError it threw).  A message or name argument that is not
\* a string is NoStr.

\* variant: a blank message is let through
ensureNonEmptyMessage_BlankAllowed(value) ==
  IF ~value.def THEN [threw |-> TRUE, v |-> <<>>]
  ELSE [threw |-> FALSE, v |-> Trim(value.v)]

\* ensureNonEmptyMessage(value, fieldLabel): the trimmed text, or the throw
ensureNonEmptyMessage(value) ==
  IF ~value.def THEN [threw |-> TRUE, v |-> <<>>]
  ELSE IF Len(Trim(value.v)) = 0 THEN [threw |-> TRUE, v |-> <<>>]
  ELSE [threw |-> FALSE, v |-> Trim(value.v)]

setSystemMessage(c, message) ==
  LET ensured == ensureNonEmptyMessage(message)
  IN IF ensured.threw
     THEN [client |-> c, result |-> "VALIDATION_ERROR"]
     ELSE [client |-> [c EXCEPT !.currentSystemMessage = ensured.v],
           result |-> "ok"]

clearSystemMessage(c) ==
  [client |-> [c EXCEPT !.currentSystemMessage = <<>>], result |-> "ok"]

setUserMessage(c, message) ==
  LET ensured == ensureNonEmptyMessage(message)
  IN IF ensured.threw
     THEN [client |-> c, result |-> "VALIDATION_ERROR"]
     ELSE [client |-> [c EXCEPT !.currentUserMessage = ensured.v],
           result |-> "ok"]

clearUserMessage(c) ==
  [client |-> [c EXCEPT !.currentUserMessage = <<>>], result |-> "ok"]

\* setModel(name, parameters): parameters.def is the truthiness of the
\* parameters argument
setModel(c, name, parameters) ==
  IF ~name.def \/ Trim(name.v) = <<>>
  THEN [client |-> c, result |-> "VALIDATION_ERROR"]
  ELSE [client |->
          [c EXCEPT !.modelName = Trim(name.v),
                    !.modelParameters =
                       IF parameters.def THEN Spread(@, parameters.v) ELSE @],
        result |-> "ok"]

\* generateSchemaName(): the counter is advanced and names the schema
generateSchemaName(c) ==
  [client |-> [c EXCEPT !.schemaCounter = @ + 1],
   name |-> AutoName(c.schemaCounter + 1)]

\* variant: schema.title is preferred to options.name
ResolveSchemaName_TitleFirst(name, title, c) ==
  IF title.def /\ Trim(title.v) # <<>> THEN GivenName(Trim(title.v))
  ELSE IF name.def /\ Trim(name.v) # <<>> THEN GivenName(Trim(name.v))
  ELSE generateSchemaName(c).name

\* the schema name setResponseFormat resolves: options.name, else
\* schema.title, else a generated name
ResolveSchemaName(name, title, c) ==
  IF name.def /\ Trim(name.v) # <<>> THEN GivenName(Trim(name.v))
  ELSE IF title.def /\ Trim(title.v) # <<>> THEN GivenName(Trim(title.v))
  ELSE generateSchemaName(c).name

\* setResponseFormat(schema, options): schema.object tells whether schema is
\* a non-null object, schema.id names the object, schema.title is its title;
\* name is options.name and strict is options.strict.  generated lists the
\* names generateSchemaName returned during the call.
setResponseFormat(c, schema, name, strict) ==
  IF ~schema.object
  THEN [client |-> c, result |-> "VALIDATION_ERROR", generated |-> <<>>]
  ELSE LET schemaName == ResolveSchemaName(name, schema.title, c)
           after == IF schemaName.auto > 0
                    THEN generateSchemaName(c).client ELSE c
       IN [client |->
             [after EXCEPT
                !.responseFormat =
                   [def |-> TRUE, schema |-> schema.id, name |-> schemaName,
                    strict |-> IF strict.def THEN strict.v ELSE TRUE]],
           result |-> "ok",
           generated |-> IF schemaName.auto > 0 THEN <<schemaName>> ELSE <<>>]

clearResponseFormat(c) ==
  [client |-> [c EXCEPT !.responseFormat = NoResponseFormat], result |-> "ok"]

\* the state of the sendChatMessage call
callVars ==
  <<pc, arg, payload, attempt, lastError, timerArmed, response, outcome,
    requests, log, delays>>

\* the client is left as the setter call left it; the call in progress, if
\* any, is not touched
SetterStep(returned) ==
  /\ client' = returned.client
  /\ setterResult' = returned.result
  /\ UNCHANGED <<callVars, validatorVars>>

SetSystemMessage(message) ==
  LET returned == setSystemMessage(client, message)
  IN /\ SetterStep(returned)
     /\ systemCleared' = IF returned.result = "ok" THEN FALSE ELSE systemCleared
     /\ UNCHANGED <<generated, other>>

ClearSystemMessage ==
  /\ SetterStep(clearSystemMessage(client))
  /\ systemCleared' = TRUE
  /\ UNCHANGED <<generated, other>>

SetUserMessage(message) ==
  /\ SetterStep(setUserMessage(client, message))
  /\ UNCHANGED setterVars

ClearUserMessage ==
  /\ SetterStep(clearUserMessage(client))
  /\ UNCHANGED setterVars

SetModel(name, parameters) ==
  /\ SetterStep(setModel(client, name, parameters))
  /\ UNCHANGED setterVars

SetResponseFormat(schema, name, strict) ==
  LET returned == setResponseFormat(client, schema, name, strict)
  IN /\ SetterStep(returned)
     /\ generated' = generated \o returned.generated
     /\ UNCHANGED <<systemCleared, other>>

ClearResponseFormat ==
  /\ SetterStep(clearResponseFormat(client))
  /\ UNCHANGED setterVars

\* setResponseFormat on the second instance
OtherSetResponseFormat(schema, name, strict) ==
  /\ other' = setResponseFormat(other, schema, name, strict).client
  /\ UNCHANGED <<client, setterResult, generated, systemCleared>>
  /\ UNCHANGED <<callVars, validatorVars>>

NoBool == [def |-> FALSE, v |-> FALSE]
SomeBool(b) == [def |-> TRUE, v |-> b]

\* options.modelParameters and the parameters argument of setModel, when
\* absent
NoParametersArg == [def |-> FALSE, v |-> NoParameters]

(* ---------------------------- setter inputs --------------------------- *)

\* schema arguments of setResponseFormat
NotASchema == [object |-> FALSE, id |-> "", title |-> NoStr]
SchemaA == [object |-> TRUE, id |-> "A", title |-> NoStr]
SchemaB == [object |-> TRUE, id |-> "B", title |-> SomeStr(<<"t", " ">>)]
SchemaC == [object |-> TRUE, id |-> "C", title |-> SomeStr(<<" ">>)]
SchemaArgs == {NotASchema, SchemaA, SchemaB, SchemaC}

\* options.name
NameArgs == {NoStr, SomeStr(<<" ">>), SomeStr(<<"n", " ">>)}

\* message arguments of setSystemMessage and setUserMessage
MessageArgs == {NoStr, SomeStr(<<>>), SomeStr(<<" ">>), SomeStr(<<" ", "y">>)}

\* name and parameters arguments of setModel
ModelArgs == {NoStr, SomeStr(<<" ">>), SomeStr(<<"m", "2", " ">>)}
ParameterArgs ==
  {NoParametersArg, [def |-> TRUE, v |-> [top_p |-> SomeNum(5)]]}

\* the named schema is generated only while the counter is below cap
BelowCap(c, schema, name, cap) ==
  (schema.object /\ ResolveSchemaName(name, schema.title, c).auto > 0)
    => c.schemaCounter < cap

(* --------------------------- specification ---------------------------- *)

\* one call at a time, the response format set between the calls
Next ==
  \/ \E m \in UserMessages : SendChatMessage(m)
  \/ \E status \in Statuses : FetchResolves(status)
  \/ \E body \in Bodies : TextResolves(body)
  \/ \E name \in RawErrors : TextRejects(name)
  \/ \E name \in RawErrors : FetchRejects(name)
  \/ TimerFires
  \/ DelayElapses
  \/ Complete
  \/ \E schema \in {NotASchema, SchemaA} :
       /\ pc = "idle"
       /\ BelowCap(client, schema, NoStr, MaxSchemaCounter)
       /\ SetResponseFormat(schema, NoStr, NoBool)
  \/ pc = "idle" /\ ClearResponseFormat
  \/ pc = "idle" /\ ClearUserMessage

Spec == Init /\ [][Next]_vars

\* one client, constructed with DefaultOptions
InitDefault ==
  /\ client = Constructor(DefaultOptions)
  /\ InitRest
  /\ NoValidation

\* the bodies of the responses to the calls whose configuration is followed
FewBodies ==
  {WellFormedBody, [WellFormedBody EXCEPT !.conforms = FALSE]}

\* every setter between the calls, on either instance; the server answers
\* each call at once
NextSetters ==
  \/ \E message \in MessageArgs : pc = "idle" /\ SetSystemMessage(message)
  \/ pc = "idle" /\ ClearSystemMessage
  \/ \E message \in MessageArgs : pc = "idle" /\ SetUserMessage(message)
  \/ pc = "idle" /\ ClearUserMessage
  \/ \E name \in ModelArgs, parameters \in ParameterArgs :
       pc = "idle" /\ SetModel(name, parameters)
  \/ \E schema \in SchemaArgs, name \in NameArgs,
        strict \in {NoBool, SomeBool(FALSE)} :
       /\ pc = "idle"
       /\ BelowCap(client, schema, name, MaxGeneratedNames)
       /\ SetResponseFormat(schema, name, strict)
  \/ pc = "idle" /\ ClearResponseFormat
  \/ /\ pc = "idle"
     /\ BelowCap(other, SchemaA, NoStr, MaxGeneratedNames)
     /\ OtherSetResponseFormat(SchemaA, NoStr, NoBool)
  \/ \E m \in {<<>>, <<"h">>} : SendChatMessage(m)
  \/ FetchResolves(200)
  \/ \E body \in FewBodies : TextResolves(body)
  \/ Complete

SpecSetters == InitDefault /\ [][NextSetters]_vars

\* the setters called while a call is in flight: the caller is free to run
\* at every suspension point of sendChatMessage
NextInFlight ==
  \/ SendChatMessage(<<"h">>)
  \/ \E status \in {200, 501} : FetchResolves(status)
  \/ \E body \in FewBodies : TextResolves(body)
  \/ DelayElapses
  \/ Complete
  \/ \E message \in MessageArgs :
       pc \in {"fetch", "text", "delay"} /\ SetSystemMessage(message)
  \/ \E name \in ModelArgs, parameters \in ParameterArgs :
       pc \in {"fetch", "text", "delay"} /\ SetModel(name, parameters)
  \/ \E schema \in {NotASchema, SchemaA, SchemaB} :
       /\ pc \in {"idle", "fetch", "text", "delay"}
       /\ SetResponseFormat(schema, SomeStr(<<"n", " ">>), NoBool)
  \/ pc \in {"idle", "fetch", "text", "delay"} /\ ClearResponseFormat

SpecInFlight == InitDefault /\ [][NextInFlight]_vars

(* --------------------------- validator inputs ------------------------- *)

TypeNames ==
  {"string", "number", "integer", "boolean", "object", "array", "null"}

\* { type: name } and { type: [names] }
TypeOnly(name) == [type |-> [single |-> name]]
UnionOnly(names) == [type |-> [union |-> names]]

Unions ==
  {<<"string", "number">>, <<"number", "null">>, <<"integer", "number">>,
   <<"string", "null">>, <<"object", "array">>, <<"boolean", "string">>}

\* the schemas whose only keyword is type
TypeSchemas ==
  {TypeOnly(name) : name \in TypeNames} \cup {UnionOnly(u) : u \in Unions}

\* the branches of the compositions
Branches ==
  {TypeOnly("string"), TypeOnly("number"), TypeOnly("integer"),
   [type |-> [single |-> "object"],
    properties |-> <<Entry("a", TypeOnly("number"))>>,
    required |-> <<"a">>],
   [oneOf |-> <<TypeOnly("null"), TypeOnly("boolean")>>]}

\* the lists of at most MaxBranches branches
BranchLists ==
  UNION {[1..n -> Branches] : n \in 0..MaxBranches}

OneOfSchemas ==
  {[oneOf |-> branches] : branches \in BranchLists}
    \cup {[anyOf |-> <<any>>, oneOf |-> branches] :
            any \in {TypeOnly("string"), TypeOnly("number")},
            branches \in BranchLists}
    \cup {[type |-> [single |-> "string"], oneOf |-> branches] :
            branches \in BranchLists}

\* properties: { a: { type: number } }
PropertiesA == <<Entry("a", TypeOnly("number"))>>

ObjectSchemas ==
  {[type |-> [single |-> "object"], additionalProperties |-> NoAdditional],
   [additionalProperties |-> NoAdditional],
   [type |-> [single |-> "object"], properties |-> <<>>,
    additionalProperties |-> NoAdditional],
   [type |-> [single |-> "object"], properties |-> PropertiesA,
    additionalProperties |-> NoAdditional],
   [properties |-> PropertiesA, additionalProperties |-> NoAdditional],
   [type |-> [union |-> <<"object", "null">>], properties |-> PropertiesA,
    additionalProperties |-> NoAdditional],
   [type |-> [single |-> "object"], properties |-> PropertiesA,
    required |-> <<"a">>, additionalProperties |-> NoAdditional],
   [type |-> [single |-> "object"], properties |-> PropertiesA,
    additionalProperties |-> [allowed |-> TRUE]],
   [type |-> [single |-> "object"], properties |-> PropertiesA,
    additionalProperties |-> [schema |-> TypeOnly("string")]],
   [type |-> [single |-> "object"], properties |-> PropertiesA],
   [type |-> [single |-> "object"], required |-> <<"a">>],
   [type |-> [single |-> "object"],
    properties |->
      <<Entry("a", TypeOnly("number")),
        Entry("b", [type |-> [single |-> "object"], properties |-> <<>>,
                    additionalProperties |-> NoAdditional])>>]}

\* the schema of Scenario A and B: an object with a required array of cards,
\* each an object with the required strings front and back
CardSchema ==
  [type |-> [single |-> "object"],
   required |-> <<"front", "back">>,
   properties |-> <<Entry("front", TypeOnly("string")),
                    Entry("back", TypeOnly("string"))>>]

FlashcardsSchema ==
  [type |-> [single |-> "object"],
   required |-> <<"flashcards">>,
   properties |->
     <<Entry("flashcards",
             [type |-> [single |-> "array"],
              items |-> [single |-> CardSchema]])>>]

ArraySchemas ==
  {[type |-> [single |-> "array"], items |-> [single |-> TypeOnly("number")]],
   [items |-> [single |-> TypeOnly("string")]],
   [type |-> [single |-> "array"], items |-> [single |-> TypeOnly("string")],
    minItems |-> 2],
   [type |-> [single |-> "array"], items |-> [single |-> EmptySchema],
    maxItems |-> 1],
   [type |-> [single |-> "array"], minItems |-> 2],
   [type |-> [single |-> "array"], maxItems |-> 0],
   [minItems |-> 1, maxItems |-> 1],
   [type |-> [single |-> "array"],
    items |-> [tuple |-> <<TypeOnly("string"), TypeOnly("number")>>]],
   [items |-> [tuple |-> <<TypeOnly("string"), TypeOnly("number")>>]],
   [type |-> [single |-> "array"],
    items |-> [tuple |-> <<TypeOnly("string"), EmptySchema>>]],
   [type |-> [single |-> "array"],
    items |-> [tuple |-> <<TypeOnly("string")>>]],
   [type |-> [single |-> "array"], items |-> [tuple |-> <<>>]],
   [type |-> [single |-> "array"],
    items |-> [tuple |-> <<TypeOnly("string"), TypeOnly("number")>>],
    minItems |-> 1]}

\* an object with the required number a
ObjectWithA ==
  [type |-> [single |-> "object"],
   properties |-> <<Entry("a", TypeOnly("number"))>>,
   required |-> <<"a">>]

\* compositions with sibling keywords, and compositions under a property
SiblingSchemas ==
  {[anyOf |-> <<EmptySchema>>, type |-> [single |-> "number"]],
   [anyOf |-> <<EmptySchema>>, enum |-> <<JInt(1)>>],
   [anyOf |-> <<TypeOnly("object")>>, required |-> <<"a">>,
    properties |-> PropertiesA, additionalProperties |-> NoAdditional],
   [anyOf |-> <<TypeOnly("array")>>,
    items |-> [single |-> TypeOnly("number")], minItems |-> 2],
   [anyOf |-> <<EmptySchema>>, allOf |-> <<TypeOnly("number")>>],
   [oneOf |-> <<TypeOnly("object")>>, required |-> <<"a">>,
    properties |-> PropertiesA],
   [oneOf |-> <<EmptySchema>>, enum |-> <<JInt(1)>>],
   [oneOf |-> <<TypeOnly("array")>>,
    items |-> [single |-> TypeOnly("number")]],
   [oneOf |-> <<EmptySchema>>, allOf |-> <<TypeOnly("number")>>],
   [type |-> [single |-> "object"],
    properties |-> <<Entry("a", [anyOf |-> <<ObjectWithA>>])>>],
   [type |-> [single |-> "object"],
    properties |-> <<Entry("a", [oneOf |-> <<ObjectWithA>>])>>],
   [type |-> [single |-> "array"],
    items |-> [single |-> [anyOf |-> <<ObjectWithA, TypeOnly("string")>>]]],
   [allOf |-> <<ObjectWithA, TypeOnly("object")>>],
   [enum |-> <<JInt(1), JObject(<<Entry("a", JInt(1))>>)>>],
   [enum |-> <<>>],
   [anyOf |-> <<>>],
   [anyOf |-> <<TypeOnly("string"), ObjectWithA>>]}

\* the schemas with a composition under a property or under items
NestedCompositions ==
  {schema \in SiblingSchemas :
     \/ /\ Has(schema, "properties") /\ Len(schema.properties) = 1
        /\ (Has(schema.properties[1].v, "anyOf")
              \/ Has(schema.properties[1].v, "oneOf"))
     \/ /\ Has(schema, "items") /\ Has(schema.items, "single")
        /\ Has(schema.items.single, "anyOf")}

Schemas ==
  {EmptySchema, FlashcardsSchema} \cup TypeSchemas \cup OneOfSchemas
    \cup ObjectSchemas \cup ArraySchemas \cup SiblingSchemas

\* a card: { front, back }, either of them absent when NoValue
NoValue == JUndefined
Card(front, back) ==
  JObject((IF front = NoValue THEN <<>> ELSE <<Entry("front", front)>>)
            \o (IF back = NoValue THEN <<>> ELSE <<Entry("back", back)>>))

\* { flashcards: cards }
Flashcards(cards) == JObject(<<Entry("flashcards", cards)>>)

\* the response of Scenario A and the one of Scenario B
ScenarioA == Flashcards(JArray(<<Card(JString(<<"Q">>), JString(<<"A">>))>>))
ScenarioB == Flashcards(JArray(<<Card(JString(<<"Q">>), NoValue)>>))

CardValues ==
  {ScenarioA, ScenarioB,
   Flashcards(JArray(<<Card(JInt(1), JString(<<"A">>))>>)),
   Flashcards(JArray(<<Card(JString(<<"Q">>), JString(<<"A">>)),
                       Card(JString(<<"Q">>), JNull)>>)),
   Flashcards(JArray(<<Card(JString(<<"Q">>), JString(<<"A">>)),
                       Card(NoValue, JString(<<"A">>))>>)),
   Flashcards(JArray(<<JNull>>)),
   Flashcards(JArray(<<>>)),
   Flashcards(JInt(1))}

Values ==
  {JNull, JBool(TRUE), JInt(1), JFrac(1), JInfinity,
   JString(<<>>), JString(<<"a", "b">>),
   JArray(<<>>), JArray(<<JInt(1)>>),
   JObject(<<>>),
   JObject(<<Entry("a", JInt(1))>>),
   JObject(<<Entry("a", JString(<<"x">>))>>),
   JObject(<<Entry("a", JInt(1)), Entry("b", JNull)>>),
   JObject(<<Entry("c", JInt(1)), Entry("b", JObject(<<Entry("d", JInt(1))>>))>>),
   JObject(<<Entry("a", JObject(<<Entry("a", JString(<<"x">>))>>))>>),
   JObject(<<Entry("a", JObject(<<Entry("a", JInt(1))>>))>>),
   JArray(<<JString(<<"a">>)>>),
   JArray(<<JString(<<"a">>), JInt(1)>>),
   JArray(<<JString(<<"a">>), JString(<<"b">>)>>),
   JArray(<<JInt(1), JString(<<"a">>), JInt(1)>>),
   JArray(<<JObject(<<Entry("a", JString(<<"x">>))>>)>>)}
    \cup CardValues

\* validateAgainstSchema(schema, data) is called, with the pointer "#"
Validate ==
  /\ vResult = NotRun
  /\ vResult' = validateAgainstSchema(vSchema, vData, <<>>)
  /\ UNCHANGED <<vSchema, vData, client, setterResult>>
  /\ UNCHANGED <<callVars, setterVars, dText, dContent, dResult>>
  /\ UNCHANGED generationVars

\* the validator on its own: one schema, one value
InitValidate ==
  /\ client = Constructor(DefaultOptions)
  /\ InitRest
  /\ vSchema \in Schemas
  /\ vData \in Values
  /\ vResult = NotRun
  /\ dText = <<>>
  /\ dContent = <<>>
  /\ dResult = NotDeserialized
  /\ NoGeneration

SpecValidate == InitValidate /\ [][Validate]_vars

(* ---------------------------- decoder inputs -------------------------- *)

\* white space that may stand around a fence, and the language tags
Paddings == {<<>>, <<" ">>}
Tags == {<<>>, <<"j", "s", "o", "n">>, <<"J", "S", "O", "N">>}

\* the text wrapped in a code fence with the tag, white space around each part
Fenced(text, tag, before, inner, after) ==
  before \o Fence \o tag \o inner \o text \o inner \o Fence \o after

\* deserializeStructuredContent(content) is called
Deserialize ==
  /\ dResult = NotDeserialized
  /\ dResult' = deserializeStructuredContent(dContent)
  /\ UNCHANGED <<dText, dContent, vSchema, vData, vResult, client,
                 setterResult>>
  /\ UNCHANGED <<callVars, setterVars, generationVars>>

\* the decoder on its own: the text of a JSON value, as it is or in a fence
InitDecode ==
  /\ client = Constructor(DefaultOptions)
  /\ InitRest
  /\ vSchema = EmptySchema /\ vData = JUndefined /\ vResult = NotRun
  /\ dText \in {entry.text : entry \in JsonTexts}
  /\ \E tag \in Tags, before \in Paddings, inner \in Paddings,
        after \in Paddings :
       dContent \in {Fenced(dText, tag, before, inner, after),
                     before \o dText \o after}
  /\ dResult = NotDeserialized
  /\ NoGeneration

SpecDecode == InitDecode /\ [][Deserialize]_vars

(* ------------------------- generation service ------------------------- *)

\* what the generation service leaves alone
NotGeneration ==
  /\ UNCHANGED <<client, setterResult, vSchema, vData, vResult, dText,
                 dContent, dResult>>
  /\ UNCHANGED <<callVars, setterVars>>

ChatErrors == ErrorCodes \cup {"Error"}

ParsedResponses ==
  {NoParsed, MalformedParsed}
    \cup {Parsed(flashcards) :
            flashcards \in {<<>>, <<"valid">>, <<"blank">>, <<"null">>,
                            <<"missing", "valid">>, <<"valid", "valid">>,
                            <<"valid", "blank", "valid">>,
                            <<"blank", "missing">>}}

ChatOutcomes ==
  {ChatRejects(name) : name \in ChatErrors}
    \cup {ChatResolves(parsed, usage) :
            parsed \in ParsedResponses, usage \in BOOLEAN}

\* createGeneration(command, context) up to the end of the AI step: the chat
\* client settles; on a failure the catch block logs it and the call rejects
CreateGeneration(chat, logged) ==
  /\ gPc = "idle"
  /\ gChat' = chat
  /\ LET step == AiStep(chat, gMaxProposals)
     IN IF step.failed
        THEN /\ gInserts' =
                  gInserts
                    \o [i \in 1..Len(step.logs) |->
                          Insert("generation_error_logs", step.logs[i],
                                 logged)]
             /\ gOutcome' = GenerationServiceError("AI_FAILURE")
             /\ gPc' = "done"
             /\ UNCHANGED gProposals
        ELSE /\ gProposals' = step.proposals
             /\ gPc' = "persist"
             /\ UNCHANGED <<gInserts, gOutcome>>
  /\ UNCHANGED gMaxProposals
  /\ NotGeneration

\* persistGeneration: the insert into generations answers
PersistGeneration(accepted) ==
  /\ gPc = "persist"
  /\ gInserts' = Append(gInserts, Insert("generations", "", accepted))
  /\ IF accepted
     THEN gPc' = "usage" /\ UNCHANGED gOutcome
     ELSE gPc' = "done" /\ gOutcome' = GenerationServiceError("DB_FAILURE")
  /\ UNCHANGED <<gChat, gProposals, gMaxProposals>>
  /\ NotGeneration

\* recordUsageMetrics, and the return of createGeneration
RecordUsageMetrics(accepted) ==
  /\ gPc = "usage"
  /\ gInserts' =
       IF gChat.usage
       THEN Append(gInserts,
                   Insert("generation_error_logs", "USAGE_METRICS", accepted))
       ELSE gInserts
  /\ gOutcome' = GenerationResponse(gProposals)
  /\ gPc' = "done"
  /\ UNCHANGED <<gChat, gProposals, gMaxProposals>>
  /\ NotGeneration

InitGeneration ==
  /\ client = Constructor(DefaultOptions)
  /\ InitRest
  /\ vSchema = EmptySchema /\ vData = JUndefined /\ vResult = NotRun
  /\ dText = <<>> /\ dContent = <<>> /\ dResult = NotDeserialized
  /\ gPc = "idle"
  /\ gChat = ChatRejects("Error")
  /\ gProposals = <<>>
  /\ gInserts = <<>>
  /\ gOutcome = NoGenerationOutcome
  /\ gMaxProposals \in {1, 2, DefaultMaxProposals}

NextGeneration ==
  \/ \E chat \in ChatOutcomes, logged \in BOOLEAN :
       CreateGeneration(chat, logged)
  \/ \E accepted \in BOOLEAN : PersistGeneration(accepted)
  \/ \E accepted \in BOOLEAN : RecordUsageMetrics(accepted)

SpecGeneration == InitGeneration /\ [][NextGeneration]_vars

(* ------------------------------ properties ---------------------------- *)

Last(seq) == seq[Len(seq)]

\* the statuses the client retries, as the interface states them
RetriableStatus(s) ==
  s = 0 \/ s \in {408, 409, 425, 429, 500, 502, 503, 504, 524} \/ s >= 500

SuccessStatus(s) == s >= 200 /\ s <= 299

\* attempt i of the call ended with an HTTP status that is retriable
RetriedStatusAt(i) ==
  /\ log[i].kind = "status"
  /\ ~SuccessStatus(log[i].status)
  /\ RetriableStatus(log[i].status)

\* a success body the client can turn into a result
WellFormed(b) ==
  /\ b.text = "json" /\ b.top = "object" /\ b.hasId
  /\ b.choices = "list" /\ b.first = "message"
  /\ b.content \in {"text", "parts"}
  /\ client.responseFormat.def => (b.parsed \/ b.decodes) /\ b.conforms

\* C1: a sendChatMessage call issues at most maxRetries + 1 HTTP requests,
\* whatever the attempts end with.
C1_AtMostMaxRetriesPlusOne == requests <= client.maxRetries + 1

C1_Witness ==
  pc = "done" /\ client.maxRetries >= 2 /\ requests = client.maxRetries + 1

\* C2: an attempt that receives a non-success status that is not retriable
\* is the last attempt of the call: the call has failed, no further request
\* was issued and no backoff delay was scheduled after it.
C2_NonRetriableStatusEndsCall ==
  \A i \in 1..Len(log) :
    (/\ log[i].kind = "status"
     /\ ~SuccessStatus(log[i].status)
     /\ ~RetriableStatus(log[i].status))
    => /\ i = Len(log)
       /\ pc = "done"
       /\ outcome.kind = "error"
       /\ requests = i
       /\ Len(delays) = i - 1

C2_Witness ==
  /\ pc = "done" /\ client.maxRetries >= 2
  /\ Len(log) = 1 /\ log[1].kind = "status" /\ log[1].status = 404
  /\ outcome.kind = "error" /\ requests = 1 /\ delays = <<>>

\* C3: k retriable statuses (k <= maxRetries) followed by a well-formed
\* success response give a result after exactly k + 1 requests; as long as
\* only retriable statuses were received and attempts remain, the call goes
\* on to the next attempt.
C3_SuccessAfterRetries ==
  LET n == Len(log) IN
  /\ (/\ n >= 1
      /\ n - 1 <= client.maxRetries
      /\ \A i \in 1..(n - 1) : RetriedStatusAt(i)
      /\ log[n].kind = "status"
      /\ SuccessStatus(log[n].status)
      /\ WellFormed(log[n].body))
     => pc = "done" /\ outcome.kind = "result" /\ requests = n
  /\ (/\ n >= 1
      /\ n <= client.maxRetries
      /\ \A i \in 1..n : RetriedStatusAt(i))
     => /\ pc \in {"delay", "fetch", "text"}
        /\ pc # "delay" => requests = n + 1

C3_Witness ==
  /\ pc = "done" /\ outcome.kind = "result" /\ client.maxRetries = 2
  /\ Len(log) = 3 /\ requests = 3
  /\ log[1].status = 429 /\ log[2].status = 429 /\ log[3].status = 200

\* C4: when every attempt receives the same retriable status s, the call
\* makes exactly maxRetries + 1 requests and fails with API_ERROR carrying s.
C4_ExhaustedStatusIsApiError ==
  (/\ pc = "done"
   /\ Len(log) >= 1
   /\ \A i \in 1..Len(log) :
        RetriedStatusAt(i) /\ log[i].status = log[1].status)
  => /\ requests = client.maxRetries + 1
     /\ Len(log) = client.maxRetries + 1
     /\ outcome.kind = "error"
     /\ outcome.code = "API_ERROR"
     /\ outcome.status = log[1].status

C4_Witness ==
  /\ pc = "done" /\ client.maxRetries = 1 /\ requests = 2
  /\ Len(log) = 2 /\ log[1].status = 501 /\ log[2].status = 501
  /\ outcome.code = "API_ERROR" /\ outcome.status = 501

NoApiKey == ~client.apiKey.def \/ client.apiKey.v = <<>>

\* C5: a client without an API key issues no HTTP request, and its
\* sendChatMessage with a non-blank message fails with CONFIGURATION_ERROR.
C5_MissingKeyFailsLazily ==
  NoApiKey =>
    /\ requests = 0
    /\ log = <<>>
    /\ (pc = "done" /\ Trim(arg) # <<>>) =>
         outcome.kind = "error" /\ outcome.code = "CONFIGURATION_ERROR"

C5_Witness ==
  /\ ~client.apiKey.def /\ pc = "done" /\ Trim(arg) # <<>>
  /\ outcome.code = "CONFIGURATION_ERROR" /\ requests = 0

\* C6: every failure of sendChatMessage is a ServiceError whose kind is one
\* of the four error kinds.
C6_EveryFailureTyped ==
  outcome.kind = "error" => outcome.typed /\ outcome.code \in ErrorCodes

\* an attempt that ended in a timeout or a transient transport failure
TransientFailureAt(i) ==
  \/ log[i].kind = "timeout"
  \/ log[i].kind = "error" /\ log[i].error \in {"AbortError", "FetchError"}

\* C7: when every attempt ends in a timeout or a transient transport
\* failure, the call makes exactly maxRetries + 1 requests and fails with
\* NETWORK_ERROR whose cause is the error of the last attempt.
C7_ExhaustedNetworkError ==
  (/\ pc = "done"
   /\ Len(log) >= 1
   /\ \A i \in 1..Len(log) : TransientFailureAt(i))
  => /\ requests = client.maxRetries + 1
     /\ outcome.kind = "error"
     /\ outcome.code = "NETWORK_ERROR"
     /\ outcome.cause = Last(log).error
     /\ outcome.cause # "none"

C7_Witness ==
  /\ pc = "done" /\ client.maxRetries = 2 /\ requests = 3 /\ Len(log) = 3
  /\ log[1].kind = "timeout" /\ log[2].kind = "error"
  /\ log[3].kind = "timeout"
  /\ outcome.code = "NETWORK_ERROR" /\ outcome.cause = "AbortError"

\* C8: a success status with a non-empty body that is not JSON ends the
\* call with API_ERROR; no further request is issued.
C8_MalformedSuccessBodyIsFatal ==
  \A i \in 1..Len(log) :
    (/\ log[i].kind = "status"
     /\ SuccessStatus(log[i].status)
     /\ log[i].body.text = "notJson")
    => /\ i = Len(log)
       /\ pc = "done"
       /\ outcome.kind = "error"
       /\ outcome.code = "API_ERROR"
       /\ requests = i

C8_Witness ==
  /\ pc = "done" /\ client.maxRetries >= 1 /\ Len(log) = 1 /\ requests = 1
  /\ log[1].kind = "status" /\ log[1].status = 200
  /\ log[1].body.text = "notJson"
  /\ outcome.code = "API_ERROR"

\* C9: a call that ends on a non-success status fails with an error that
\* carries the status; its kind is CONFIGURATION_ERROR exactly for 401 and
\* API_ERROR for every other status.
C9_StatusErrorKind ==
  (/\ pc = "done"
   /\ Len(log) >= 1
   /\ Last(log).kind = "status"
   /\ ~SuccessStatus(Last(log).status))
  => /\ outcome.kind = "error"
     /\ outcome.status = Last(log).status
     /\ outcome.code = "CONFIGURATION_ERROR" <=> Last(log).status = 401
     /\ Last(log).status # 401 => outcome.code = "API_ERROR"

C9_Witness ==
  /\ pc = "done" /\ Len(log) = 2
  /\ log[1].kind = "status" /\ log[1].status = 501
  /\ log[2].kind = "status" /\ log[2].status = 401
  /\ outcome.code = "CONFIGURATION_ERROR" /\ outcome.status = 401

\* C10: the k-th backoff delay of a call is baseDelay * multiplier^(k-1)
\* (1000, 2000 with the defaults); one delay is scheduled after each
\* attempt that is retried, none before the first attempt and none after
\* the last.
C10_BackoffDelays ==
  /\ \A k \in 1..Len(delays) :
       delays[k] = client.retryDelayMs * Pow(client.backoffMultiplier, k - 1)
  /\ (/\ client.retryDelayMs = 1000
      /\ client.backoffMultiplier = 2
      /\ Len(delays) >= 2)
     => delays[1] = 1000 /\ delays[2] = 2000
  /\ pc = "idle" => delays = <<>>
  /\ pc \in {"fetch", "text"} => Len(delays) = requests - 1
  /\ pc = "delay" => Len(delays) = requests /\ Len(log) = requests
  /\ pc = "done" => Len(delays) = Max(requests - 1, 0)

C10_Witness ==
  /\ pc = "done" /\ requests = 3 /\ delays = <<1000, 2000>>

\* C11: every call completes provided the timers fire, because each attempt
\* is bounded by the timeout: while an attempt waits for the server, for the
\* response or for its body, the abort timer of the attempt is pending.
C11_AttemptBoundedByTimeout ==
  pc \in {"fetch", "text"} => attempt \in timerArmed

\* a name or title argument that is a non-blank string
NonBlank(text) == text.def /\ Trim(text.v) # <<>>

\* C12: setResponseFormat registers the schema under options.name when that
\* is non-blank, else under schema.title when that is non-blank, else under
\* a generated name; the k-th generated name of a client is
\* structured_output_k, whatever named registrations, clearResponseFormat
\* calls and registrations on another instance came in between.
C12_SchemaName ==
  [][\A schema \in SchemaArgs, name \in NameArgs,
        strict \in {NoBool, SomeBool(FALSE)} :
       (/\ schema.object
        /\ pc' = pc /\ client'.responseFormat.schema = schema.id
        /\ SetResponseFormat(schema, name, strict))
         => client'.responseFormat.name =
              IF NonBlank(name) THEN GivenName(Trim(name.v))
              ELSE IF NonBlank(schema.title) THEN GivenName(Trim(schema.title.v))
              ELSE AutoName(Len(generated) + 1)]_vars

C12_Witness ==
  /\ Len(generated) = 2
  /\ client.responseFormat.def
  /\ client.responseFormat.name = AutoName(2)
  /\ client.responseFormat.schema = "C"
  /\ other.schemaCounter = 1

\* C13: a call uses the configuration in force when it was called; a setter
\* called while the call is in flight does not change the schema the
\* response is validated against: a call that returns a result or validates
\* its response does so with exactly the response format sent in the request.
C13_ValidatedAgainstSchemaSent ==
  (pc = "done" /\ (outcome.kind = "result" \/ outcome.validated.def))
    => outcome.validated = payload.response_format

\* C14: with the setters called between the calls, the payload of a call
\* carries a response_format block, with the name, schema and strict flag
\* registered, exactly when a schema is registered when the call is made, and
\* the result of the call has parsed exactly then.
C14_ResponseFormatWhenRegistered ==
  payload # NoPayload
    => /\ payload.response_format.def <=> client.responseFormat.def
       /\ payload.response_format = client.responseFormat
       /\ (pc = "done" /\ outcome.kind = "result")
            => (outcome.parsed <=> client.responseFormat.def)

C14_Witness ==
  /\ pc = "done" /\ outcome.kind = "result" /\ outcome.parsed
  /\ payload.response_format.def
  /\ payload.response_format.schema = "A"
  /\ payload.response_format.name = AutoName(1)
  /\ payload.response_format.strict

\* the response the call ended with reached the structured-output step
ReachedStructuredStep ==
  /\ pc = "done" /\ log # <<>>
  /\ Last(log).kind = "status" /\ SuccessStatus(Last(log).status)
  /\ LET b == Last(log).body
     IN /\ b.text = "json" /\ b.top = "object" /\ b.hasId
        /\ b.choices = "list" /\ b.first = "message"
        /\ b.content \in {"text", "parts", "blankParts"}

\* C15: with a schema registered, a response yields a result only when its
\* structured value, message.parsed when that is an object and the decoded
\* content otherwise, passes validation, and parsed is that value; otherwise
\* the call fails with VALIDATION_ERROR and makes no further request.
C15_StructuredResultIsValidated ==
  (client.responseFormat.def /\ ReachedStructuredStep)
    => LET b == Last(log).body
           from == IF b.parsed THEN "message.parsed" ELSE "content"
       IN /\ requests = Len(log)
          /\ IF (b.parsed \/ b.decodes) /\ b.conforms
             THEN /\ outcome.kind = "result" /\ outcome.parsed
                  /\ outcome.parsedFrom = from
                  /\ outcome.validated = client.responseFormat
             ELSE /\ outcome.kind = "error" /\ outcome.typed
                  /\ outcome.code = "VALIDATION_ERROR"

C15_Witness ==
  /\ client.responseFormat.def /\ ReachedStructuredStep
  /\ Last(log).body.parsed /\ Last(log).body.decodes
  /\ outcome.kind = "result" /\ outcome.parsedFrom = "message.parsed"
  /\ Len(log) = 2

\* C16: the messages of a payload are the user message alone or the system
\* message followed by the user message; the system entry is there exactly
\* when the current system message is non-empty, so it is absent after
\* clearSystemMessage until setSystemMessage next succeeds.
C16_PayloadMessages ==
  payload # NoPayload
    => LET user == [role |-> "user", content |-> client.currentUserMessage]
           system ==
             [role |-> "system", content |-> client.currentSystemMessage]
       IN /\ client.currentUserMessage # <<>>
          /\ IF client.currentSystemMessage # <<>>
             THEN payload.messages = <<system, user>>
             ELSE payload.messages = <<user>>
          /\ systemCleared => payload.messages = <<user>>
          /\ ~systemCleared => Len(payload.messages) = 2

C16_Witness ==
  /\ payload # NoPayload /\ systemCleared
  /\ Len(payload.messages) = 1
  /\ setterResult = "none"
  /\ pc = "done" /\ outcome.kind = "result"

\* a setter argument the setters reject: not a string, or blank
Rejected(text) == ~text.def \/ Trim(text.v) = <<>>

\* the setter call threw VALIDATION_ERROR and changed nothing
ThrewAndKept ==
  /\ setterResult' = "VALIDATION_ERROR"
  /\ client' = client
  /\ UNCHANGED <<callVars, setterVars>>

\* C17: setSystemMessage and setUserMessage with a message that is not a
\* string or is blank, setModel with a blank name and setResponseFormat with
\* a schema that is not an object throw VALIDATION_ERROR and leave the state
\* of the client as it was.
C17_InvalidSetterInputKeepsState ==
  [][/\ \A message \in MessageArgs :
          (Rejected(message) /\ pc' = pc
             /\ (SetSystemMessage(message) \/ SetUserMessage(message)))
            => ThrewAndKept
     /\ \A name \in ModelArgs, parameters \in ParameterArgs :
          (Rejected(name) /\ pc' = pc /\ SetModel(name, parameters))
            => ThrewAndKept
     /\ \A name \in NameArgs, strict \in {NoBool, SomeBool(FALSE)} :
          (pc' = pc /\ SetResponseFormat(NotASchema, name, strict))
            => ThrewAndKept]_vars

C17_Witness ==
  /\ setterResult = "VALIDATION_ERROR"
  /\ client.currentSystemMessage = <<"y">>
  /\ client.currentUserMessage = <<"y">>
  /\ client.modelName = <<"m", "2">>
  /\ client.responseFormat.def

\* the validation has run
Validated == vResult # NotRun

\* the branches of oneOf the value satisfies
SatisfiedBranches ==
  {i \in 1..Len(vSchema.oneOf) :
     isSchemaSatisfied(vSchema.oneOf[i], vData, <<>>)}

\* C18: a value is accepted by a schema with oneOf when it satisfies exactly
\* one branch, and rejected when it satisfies none or more than one.
C18_OneOfExactlyOneBranch ==
  (Validated /\ Has(vSchema, "oneOf"))
    => (~vResult.threw <=> Cardinality(SatisfiedBranches) = 1)

\* the schema applies to objects: it has no type, or object is among its
\* types
AppliesToObjects(schema) ==
  ~Has(schema, "type") \/ Includes(normalizeSchemaTypes(schema), "object")

\* the keys of the value that properties does not declare
Undeclared(schema, value) ==
  {value.entries[i].k : i \in 1..Len(value.entries)}
    \ (IF Has(schema, "properties")
       THEN {schema.properties[i].k : i \in 1..Len(schema.properties)}
       ELSE {})

\* C19: a schema that applies to objects and has additionalProperties: false,
\* with or without properties, rejects an object that has a key properties
\* does not declare, and the message lists the key.
C19_UndeclaredKeyRejected ==
  (/\ Validated
   /\ Has(vSchema, "additionalProperties")
   /\ vSchema.additionalProperties = NoAdditional
   /\ AppliesToObjects(vSchema)
   /\ vData.t = "object"
   /\ Undeclared(vSchema, vData) # {})
    => /\ vResult.threw
       /\ \A key \in Undeclared(vSchema, vData) :
            \E i \in 1..Len(vResult.detail) : vResult.detail[i] = key

\* C20: a schema whose only keyword is type, a name or a union of names,
\* accepts a value exactly when the value matches one of the types named.
C20_TypeOnlySchema ==
  (Validated /\ DOMAIN vSchema = {"type"})
    => (~vResult.threw <=>
          \E i \in 1..Len(normalizeSchemaTypes(vSchema)) :
            matchesSchemaType(normalizeSchemaTypes(vSchema)[i], vData))

\* the value the pointer leads to; JUndefined when it leads nowhere
RECURSIVE ValueAt(_, _)
ValueAt(value, pointer) ==
  IF pointer = <<>> THEN value
  ELSE LET token == Head(pointer)
       IN IF Has(token, "key")
          THEN IF value.t = "object" /\ KeyIn(token.key, value)
               THEN ValueAt(Get(value, token.key), Tail(pointer))
               ELSE JUndefined
          ELSE IF value.t = "array" /\ token.index + 1 <= Len(value.items)
               THEN ValueAt(value.items[token.index + 1], Tail(pointer))
               ELSE JUndefined

\* the schema of the location the pointer leads to, through properties and
\* a single items schema
RECURSIVE SchemaAt(_, _)
SchemaAt(schema, pointer) ==
  IF pointer = <<>> THEN schema
  ELSE LET token == Head(pointer)
       IN IF Has(token, "key")
          THEN LET i == CHOOSE j \in 1..Len(schema.properties) :
                          schema.properties[j].k = token.key
               IN SchemaAt(schema.properties[i].v, Tail(pointer))
          ELSE SchemaAt(schema.items.single, Tail(pointer))

\* the schemas that nest objects and arrays without compositions
NestingSchemas ==
  {FlashcardsSchema, CardSchema,
   [type |-> [single |-> "array"], items |-> [single |-> TypeOnly("number")]],
   [type |-> [single |-> "object"],
    properties |->
      <<Entry("a", TypeOnly("number")),
        Entry("b", [type |-> [single |-> "object"], properties |-> <<>>,
                    additionalProperties |-> NoAdditional])>>]}

\* #/flashcards/0 and #/flashcards/0/front
PointerToFirstCard == <<[key |-> "flashcards"], [index |-> 0]>>
PointerToFirstFront == Append(PointerToFirstCard, [key |-> "front"])

\* C21: a failure inside nested objects and arrays reports the pointer of
\* the place of the mismatch, "#" followed by /key per property and /index
\* per element: the value the pointer leads to exists and is the one the
\* schema of that place rejects; a missing required key reports the enclosing
\* object (#/flashcards/0 in Scenario B), a wrongly typed property reports
\* the property (#/flashcards/0/front).
C21_PointerOfMismatch ==
  /\ (Validated /\ vSchema \in NestingSchemas /\ vResult.threw)
       => LET value == ValueAt(vData, vResult.pointer)
              schema == SchemaAt(vSchema, vResult.pointer)
          IN /\ value # JUndefined
             /\ validateAgainstSchema(schema, value, <<>>)
                  = [vResult EXCEPT !.pointer = <<>>]
             /\ vResult.message = "required"
                  => value.t = "object" /\ ~KeyIn(vResult.detail[1], value)
             /\ vResult.message = "type"
                  => ~\E i \in 1..Len(normalizeSchemaTypes(schema)) :
                        matchesSchemaType(normalizeSchemaTypes(schema)[i],
                                          value)
  /\ (Validated /\ vSchema = FlashcardsSchema)
       => /\ vData = ScenarioA => vResult = Valid
          /\ vData = ScenarioB
               => vResult = Invalid("required", PointerToFirstCard, <<"back">>)
          /\ vData = Flashcards(JArray(<<Card(JInt(1), JString(<<"A">>))>>))
               => vResult = Invalid("type", PointerToFirstFront, <<"string">>)

C21_Witness ==
  /\ Validated /\ vSchema = FlashcardsSchema /\ vData = ScenarioB
  /\ vResult.threw /\ vResult.pointer = PointerToFirstCard

\* the content is the text in a code fence
IsFenced == StartsWith(Trim(dContent), Fence)

\* C22: the value decoded from the text of a JSON value wrapped in a code
\* fence, with or without the json tag and with white space around, is the
\* value decoded from the text itself.
C22_FencedDecodesAsUnfenced ==
  (dResult # NotDeserialized /\ IsFenced)
    => /\ dResult = deserializeStructuredContent(dText)
       /\ ~dResult.threw
       /\ \E entry \in JsonTexts :
            entry.text = dText /\ entry.value = dResult.value

C22_Witness ==
  /\ dResult # NotDeserialized /\ ~dResult.threw
  /\ dContent =
       <<" ">> \o Fence \o <<"j", "s", "o", "n", " ">>
         \o <<"\"", "'", "'", "'", "\"">> \o <<" ">> \o Fence
  /\ dResult.value = JString(Fence)

\* the last response is a success whose body is an object with id and choices
SuccessBody ==
  /\ pc = "done" /\ log # <<>>
  /\ Last(log).kind = "status" /\ SuccessStatus(Last(log).status)
  /\ Last(log).body.text = "json" /\ Last(log).body.top = "object"
  /\ Last(log).body.hasId

\* C23: every result has non-empty text content; a response whose content is
\* a blank string, or a list of parts with no text besides white space, and a
\* response with no first choice, fail with API_ERROR.
C23_ResultHasText ==
  /\ outcome.kind = "result" => outcome.content = "nonEmpty"
  /\ (/\ SuccessBody
      /\ Last(log).body.choices = "list"
      /\ Last(log).body.first = "message"
      /\ Last(log).body.content \in {"blank", "blankParts", "noTextParts"})
       => outcome.kind = "error" /\ outcome.code = "API_ERROR"
  /\ (SuccessBody /\ Last(log).body.choices = "empty")
       => outcome.kind = "error" /\ outcome.code = "API_ERROR"

\* the schema is a list of positional item schemas, alone or with type array
PositionalSchema ==
  /\ Has(vSchema, "items") /\ Has(vSchema.items, "tuple")
  /\ DOMAIN vSchema \subseteq {"type", "items"}
  /\ Has(vSchema, "type") => vSchema.type = [single |-> "array"]

\* the elements of the value that have a positional schema and fail it
FailingPositions ==
  {i \in 1..Len(vSchema.items.tuple) :
     /\ i <= Len(vData.items)
     /\ validateAgainstSchema(vSchema.items.tuple[i], vData.items[i],
                              <<>>).threw}

\* C24: with a list of positional item schemas, an array is rejected exactly
\* when one of its elements fails the schema of its position, at the pointer
\* of that element; positions the array has no element for impose no check,
\* so a shorter array is accepted.
C24_PositionalItems ==
  (Validated /\ PositionalSchema /\ vData.t = "array")
    => /\ vResult.threw <=> FailingPositions # {}
       /\ vResult.threw
            => \E i \in FailingPositions :
                 vResult.pointer = IndexPointer(<<>>, i)

\* C25: at most one abort timer is pending at any moment, and it is the timer
\* of the attempt whose fetch is pending: no timer is pending once the fetch
\* of the attempt has settled, during a backoff delay or after the call has
\* completed, so a timer can abort only its own attempt.
C25_OneTimerPerAttempt ==
  /\ Cardinality(timerArmed) <= 1
  /\ timerArmed # {} => pc = "fetch" /\ timerArmed = {attempt}
  /\ pc \in {"text", "delay", "done", "idle"} => timerArmed = {}

C25_Witness ==
  /\ pc = "fetch" /\ attempt = 2 /\ timerArmed = {2}
  /\ Len(log) = 1 /\ log[1].kind = "timeout"

\* attempt i ended in an error with this name, raised by fetch or by the
\* read of the body
RawErrorAt(i, name) == log[i].kind = "error" /\ log[i].error = name

\* C26: an error that is not a timeout, an abort, a service error or a
\* network failure ends the call at once with NETWORK_ERROR and the error as
\* cause, with no further request; a network failure is retried after the
\* backoff delay while attempts remain.
C26_UnexpectedErrorEndsCall ==
  \A i \in 1..Len(log) :
    /\ RawErrorAt(i, "OtherError")
         => /\ i = Len(log) /\ requests = i /\ pc = "done"
            /\ outcome.kind = "error" /\ outcome.code = "NETWORK_ERROR"
            /\ outcome.cause = "OtherError"
            /\ Len(delays) = i - 1
    /\ (RawErrorAt(i, "FetchError") /\ i <= client.maxRetries)
         => /\ Len(delays) >= i
            /\ delays[i] = delayForAttempt(client, i)
            /\ i = Len(log)
                 => \/ pc = "delay" /\ requests = i
                    \/ pc \in {"fetch", "text"} /\ requests = i + 1

C26_Witness ==
  /\ pc = "done" /\ Len(log) = 2 /\ requests = 2 /\ client.maxRetries = 2
  /\ RawErrorAt(1, "FetchError") /\ RawErrorAt(2, "OtherError")
  /\ outcome.code = "NETWORK_ERROR" /\ outcome.cause = "OtherError"

\* the AI step of the call has failed: the chat client rejected, or its
\* response has no valid flashcard
AiFailed ==
  /\ gPc # "idle"
  /\ \/ gChat.rejects
     \/ ~gChat.parsed.given
     \/ ~gChat.parsed.isArray
     \/ \A i \in 1..Len(gChat.parsed.flashcards) :
          gChat.parsed.flashcards[i] # "valid"

\* the insert calls of the call with this table and error code
InsertsOf(table, code) ==
  {i \in 1..Len(gInserts) :
     gInserts[i].table = table /\ gInserts[i].error_code = code}

\* C27: when the AI step of createGeneration fails, one row with the error
\* code AI_REQUEST_FAILED is inserted into the error log, the call rejects
\* with a GenerationServiceError of code AI_FAILURE, and neither a
\* generations row nor a USAGE_METRICS row is written.
C27_AiFailureLogged ==
  /\ AiFailed
       => /\ gPc = "done"
          /\ gOutcome = GenerationServiceError("AI_FAILURE")
          /\ Cardinality(InsertsOf("generation_error_logs",
                                   "AI_REQUEST_FAILED")) = 1
          /\ Len(gInserts) = 1
          /\ InsertsOf("generations", "") = {}
          /\ InsertsOf("generation_error_logs", "USAGE_METRICS") = {}
  /\ (gPc # "idle" /\ ~AiFailed)
       => InsertsOf("generation_error_logs", "AI_REQUEST_FAILED") = {}

C27_Witness ==
  /\ gPc = "done"
  /\ ~gChat.rejects /\ gChat.parsed = Parsed(<<"blank", "missing">>)
  /\ gOutcome.code = "AI_FAILURE"
  /\ gInserts = <<Insert("generation_error_logs", "AI_REQUEST_FAILED", TRUE)>>

\* the schema is a composition: anyOf decides when both are there
IsComposition(schema) == Has(schema, "anyOf") \/ Has(schema, "oneOf")
CompositionOf(schema) == IF Has(schema, "anyOf") THEN "anyOf" ELSE "oneOf"
BranchesOf(schema) ==
  IF Has(schema, "anyOf") THEN schema.anyOf ELSE schema.oneOf

\* the number of branches of the composition the value satisfies
SatisfiedCount ==
  Cardinality({i \in 1..Len(BranchesOf(vSchema)) :
                 isSchemaSatisfied(BranchesOf(vSchema)[i], vData, <<>>)})

\* C28: a schema with anyOf, or with oneOf and no anyOf, accepts and rejects
\* by that composition alone, whatever keywords stand beside it; the failure
\* is reported at the pointer of the composition, not at a place inside a
\* branch; a composition with no branch rejects every value.
C28_CompositionDecidesAlone ==
  /\ (Validated /\ IsComposition(vSchema))
       => /\ ~vResult.threw
               <=> IF Has(vSchema, "anyOf") THEN SatisfiedCount >= 1
                   ELSE SatisfiedCount = 1
          /\ vResult.threw
               => /\ vResult.pointer = <<>>
                  /\ vResult.message = CompositionOf(vSchema)
          /\ BranchesOf(vSchema) = <<>> => vResult.threw
  /\ (Validated /\ vSchema \in NestedCompositions /\ vResult.threw
        /\ vResult.pointer # <<>>)
       => /\ Len(vResult.pointer) = 1
          /\ IsComposition(SchemaAt(vSchema, vResult.pointer))
          /\ vResult.message
               = CompositionOf(SchemaAt(vSchema, vResult.pointer))

\* an array of one number is accepted by anyOf: [{type: array}] although
\* minItems: 2 and items stand beside it
C28_Witness ==
  /\ Validated /\ ~vResult.threw
  /\ vSchema = [anyOf |-> <<TypeOnly("array")>>,
                items |-> [single |-> TypeOnly("number")], minItems |-> 2]
  /\ vData = JArray(<<JInt(1)>>)

\* the content of the user message of the payload
UserContent(p) == p.messages[Len(p.messages)].content

\* the step is a call of sendChatMessage
SendStep == pc = "idle" /\ pc' # "idle"

\* C29: sendChatMessage(m) with a non-blank m stores trim(m) as the default
\* user message before the API key is checked and before any request, and the
\* message stays stored however the call ends; a blank send sends the stored
\* message again; a send that fails because there is no user message changes
\* nothing of the client; only a non-blank send, setUserMessage and
\* clearUserMessage change the stored message.
C29_SentMessageStored ==
  [][/\ (SendStep /\ Trim(arg') # <<>>)
          => /\ client' = [client EXCEPT !.currentUserMessage = Trim(arg')]
             /\ UserContent(payload') = Trim(arg')
             /\ ~assertApiKey(client)
                  => /\ outcome'.code = "CONFIGURATION_ERROR"
                     /\ requests' = 0
     /\ (SendStep /\ Trim(arg') = <<>> /\ client.currentUserMessage # <<>>)
          => /\ client' = client
             /\ UserContent(payload') = client.currentUserMessage
     /\ (SendStep /\ Trim(arg') = <<>> /\ client.currentUserMessage = <<>>)
          => /\ client' = client
             /\ pc' = "done" /\ outcome'.code = "VALIDATION_ERROR"
             /\ requests' = 0 /\ payload' = payload
     /\ client'.currentUserMessage # client.currentUserMessage
          => \/ SendStep /\ Trim(arg') # <<>>
             \/ pc = "idle" /\ pc' = "idle"
                  /\ client' = clearUserMessage(client).client
     /\ pc # "idle" => client'.currentUserMessage = client.currentUserMessage
    ]_vars

\* a call with a padded message on a client without an API key has failed,
\* and the trimmed message is stored
C29_Witness ==
  /\ pc = "done" /\ outcome.code = "CONFIGURATION_ERROR"
  /\ arg = <<" ", "h", " ">>
  /\ client.currentUserMessage = <<"h">>

\* the schema without these keywords
Without(schema, keywords) ==
  [k \in DOMAIN schema \ keywords |-> schema[k]]

\* the value matches the type of the schema, or the schema has no type
TypeMatches ==
  ~Has(vSchema, "type")
    \/ \E i \in 1..Len(normalizeSchemaTypes(vSchema)) :
         matchesSchemaType(normalizeSchemaTypes(vSchema)[i], vData)

\* C30: required and additionalProperties: false are checked only when the
\* schema has properties, minItems and maxItems only when it has items: a
\* schema of type, required and additionalProperties alone accepts every
\* value of its type, and so does a schema of type, minItems and maxItems;
\* additionalProperties given as a schema is never applied.
C30_ChecksNeedPropertiesOrItems ==
  /\ (Validated /\ vSchema # EmptySchema
        /\ DOMAIN vSchema \subseteq {"type", "required", "additionalProperties"}
        /\ (Has(vSchema, "type") => vSchema.type = [single |-> "object"]))
       => (~vResult.threw <=> TypeMatches)
  /\ (Validated /\ vSchema # EmptySchema
        /\ DOMAIN vSchema \subseteq {"type", "minItems", "maxItems"}
        /\ (Has(vSchema, "type") => vSchema.type = [single |-> "array"]))
       => (~vResult.threw <=> TypeMatches)
  /\ (Validated /\ ~IsComposition(vSchema) /\ ~Has(vSchema, "properties"))
       => /\ vResult
               = validateAgainstSchema(
                   Without(vSchema, {"required", "additionalProperties"}),
                   vData, <<>>)
          /\ (vResult.threw /\ vResult.pointer = <<>>
                /\ ~Has(vSchema, "allOf"))
               => vResult.message \notin {"required", "unexpected"}
  /\ (Validated /\ ~IsComposition(vSchema) /\ ~Has(vSchema, "items"))
       => /\ vResult
               = validateAgainstSchema(
                   Without(vSchema, {"minItems", "maxItems"}), vData, <<>>)
          /\ (vResult.threw /\ vResult.pointer = <<>>
                /\ ~Has(vSchema, "allOf"))
               => vResult.message \notin {"minItems", "maxItems"}
  /\ (Validated /\ Has(vSchema, "additionalProperties")
        /\ Has(vSchema.additionalProperties, "schema"))
       => vResult
            = validateAgainstSchema(
                Without(vSchema, {"additionalProperties"}), vData, <<>>)

\* { type: object, required: [a] } has accepted an object without a
C30_Witness ==
  /\ Validated /\ ~vResult.threw
  /\ vSchema = [type |-> [single |-> "object"], required |-> <<"a">>]
  /\ vData = JObject(<<>>)

====
